---- MODULE Spec2Model ----
(***************************************************************************)
(* The giantt dependency graph (core/models.py) and its doctor             *)
(* (core/doctor.py): GianttGraph.add_item, safe_topological_sort with its  *)
(* cycle search, insert_between, and GianttDoctor.full_diagnosis /         *)
(* fix_issues.                                                             *)
(*                                                                         *)
(* A graph is the dict self.items: a function from the ids present to item *)
(* records.  An item's relations dict is a function from the relation-type *)
(* names it holds to the list of target ids; a name that is not in the     *)
(* DOMAIN is a key that is not in the dict.                                *)
(*                                                                         *)
(* Iteration orders.  A Python dict iterates in insertion order and a set  *)
(* of strings in an order that depends on the process's hash seed.  The    *)
(* model does not record insertion order: wherever the code iterates a     *)
(* dict or a set and the order can change the result, the model draws the  *)
(* order from all permutations.                                            *)
(***************************************************************************)
EXTENDS Integers, Sequences, FiniteSets, TLC

\* ------------------------------------------------------------------ bounds
\* Largest number of target ids held by all relation lists of a graph that
\* add_item builds.
MaxTargets == 3
\* Largest number of those targets that sit under a relation type other than
\* REQUIRES and UNLOCKS.
MaxOther == 1
\* Largest number of target ids in a graph that the doctor is run on.
MaxDoctorTargets == 2
\* Largest number of target ids in a graph built by add_item calls that may
\* repeat an id.
MaxAddTargets == 1

\* The most relation targets in a graph that is both edited and diagnosed.
MaxEditTargets == 1

\* The most REQUIRES and UNLOCKS targets in a graph that is edited and then
\* sorted.
MaxChainTargets == 3

\* The most edits made to a graph and its copy after copy().
MaxEdits == 1

\* ------------------------------------------------------------- vocabulary
\* The item ids of the model; any of them may be present or absent.
Ids == {"a", "b", "c"}

RelationType ==
    {"REQUIRES", "UNLOCKS", "SUPERCHARGES", "INDICATES", "BEFORE", "WITH", "CONFLICTS"}

ChainTypes == {"REQUIRES", "UNLOCKS"}

OtherTypes == RelationType \ ChainTypes

\* ---------------------------------------------------------------- helpers
Range(s) == {s[i] : i \in DOMAIN s}

Min(x, y) == IF x <= y THEN x ELSE y

NoRelations == [r \in {} |-> <<>>]

\* dict[k] = v
Put(f, k, v) == [x \in (DOMAIN f) \cup {k} |-> IF x = k THEN v ELSE f[x]]

\* del dict[k]
Del(f, k) == [x \in (DOMAIN f) \ {k} |-> f[x]]

\* dict.get(k, [])
Get(f, k) == IF k \in DOMAIN f THEN f[k] ELSE <<>>

RECURSIVE Perms(_)
\* Every order in which the elements of S can be iterated.
Perms(S) ==
    IF S = {} THEN {<<>>}
    ELSE UNION {{<<x>> \o p : p \in Perms(S \ {x})} : x \in S}

\* list.reverse() left out.
Reverse_Skipped(s) == s

RECURSIVE Reverse(_)
\* list.reverse()
Reverse(s) == IF s = <<>> THEN <<>> ELSE Append(Reverse(Tail(s)), Head(s))

\* list.index(x): position of the first occurrence
IndexOf(s, x) == CHOOSE i \in 1..Len(s) : s[i] = x /\ \A j \in 1..(i - 1) : s[j] # x

\* list.remove(x): drops the first occurrence (the caller checks x is there)
ListRemove(s, x) ==
    LET i == IndexOf(s, x) IN SubSeq(s, 1, i - 1) \o SubSeq(s, i + 1, Len(s))

\* --------------------------------------------------------------- the items
GianttItem(id, charts, tags, relations) ==
    [id |-> id, charts |-> charts, tags |-> tags, relations |-> relations]

RECURSIVE SumLen(_, _)
SumLen(rel, types) ==
    IF types = {} THEN 0
    ELSE LET t == CHOOSE t \in types : TRUE
         IN Len(rel[t]) + SumLen(rel, types \ {t})

\* Number of targets an item's relations hold under the given types.
TargetsOf(rel, types) == SumLen(rel, (DOMAIN rel) \cap types)

RECURSIVE GraphTargets(_, _, _)
GraphTargets(g, ids, types) ==
    IF ids = {} THEN 0
    ELSE LET i == CHOOSE i \in ids : TRUE
         IN TargetsOf(g[i].relations, types) + GraphTargets(g, ids \ {i}, types)

\* Lists of at most n target ids.
TargetSeqs(n) == UNION {[1..k -> Ids] : k \in 0..n}

RECURSIVE RelMaps(_, _)
\* The relations dicts over the given types that hold at most n targets and
\* no empty list (the parser never stores an empty list).
RelMaps(types, n) ==
    IF types = {} THEN {NoRelations}
    ELSE LET t == CHOOSE t \in types : TRUE
         IN UNION {{IF s = <<>> THEN m ELSE Put(m, t, s) :
                        m \in RelMaps(types \ {t}, n - Len(s))} :
                    s \in TargetSeqs(n)}

ChainMaps == [n \in 0..MaxTargets |-> RelMaps(ChainTypes, n)]

OtherMaps == [n \in 0..MaxOther |-> RelMaps(OtherTypes, n)]

Merge(f, g) == [x \in (DOMAIN f) \cup (DOMAIN g) |-> IF x \in DOMAIN f THEN f[x] ELSE g[x]]

VARIABLES
    items,          \* GianttGraph.items: id -> item
    issues,         \* GianttDoctor.issues: the open issues
    fixed_issues,   \* GianttDoctor.fixed_issues
    call,           \* the last call made on the graph or the doctor, with its arguments
    ret             \* what that call returned or raised

vars == <<items, issues, fixed_issues, call, ret>>

NoCall == [name |-> "init"]

NoRet == [raised |-> "none"]

Init ==
    /\ items = [i \in {} |-> GianttItem(i, <<>>, <<>>, NoRelations)]
    /\ issues = <<>>
    /\ fixed_issues = <<>>
    /\ call = NoCall
    /\ ret = NoRet

\* ---------------------------------------------------------------- add_item
\* add_item that keeps the item an id already has.
add_item_FirstWins(g, item) == IF item.id \in DOMAIN g THEN g ELSE Put(g, item.id, item)

\* self.items[item.id] = item
add_item(g, item) == Put(g, item.id, item)

\* The graph is populated before it is sorted, edited or diagnosed.
Loading == call.name \in {"init", "add_item"}

\* load_file: one add_item per line of the file.  The lines carry distinct
\* ids here: a line that repeats an id replaces the earlier item, which gives
\* a graph that the lines without the earlier one give as well.
LoadItem(loadable, maxTargets) ==
    /\ Loading
    /\ \E id \in loadable \ DOMAIN items :
         LET rest == DOMAIN items
             room == maxTargets - GraphTargets(items, rest, RelationType)
             roomOther == MaxOther - GraphTargets(items, rest, OtherTypes)
         IN \E chain \in ChainMaps[room] :
              \E other \in OtherMaps[Min(roomOther, room - TargetsOf(chain, ChainTypes))] :
                 items' = add_item(items, GianttItem(id, <<>>, <<>>, Merge(chain, other)))
    /\ call' = [name |-> "add_item"]
    /\ ret' = NoRet
    /\ UNCHANGED <<issues, fixed_issues>>

\* The chart names and the tags of the model.
Charts == {"Foo"}

Tags == {"urgent"}

\* The charts and tags a loaded item carries: none, one chart or one tag.
Labellings ==
    {[charts |-> <<>>, tags |-> <<>>]}
        \cup {[charts |-> <<chart>>, tags |-> <<>>] : chart \in Charts}
        \cup {[charts |-> <<>>, tags |-> <<tag>>] : tag \in Tags}

\* Loading for the doctor's chart and tag checks: items with charts and tags
\* whose relations are REQUIRES and UNLOCKS lists, the two relations those
\* checks read.
LabelledAddItem ==
    /\ Loading
    /\ \E id \in Ids \ DOMAIN items :
         LET room == MaxDoctorTargets - GraphTargets(items, DOMAIN items, RelationType)
         IN \E chain \in ChainMaps[room], labels \in Labellings :
               items' = add_item(items, GianttItem(id, labels.charts, labels.tags, chain))
    /\ call' = [name |-> "add_item"]
    /\ ret' = NoRet
    /\ UNCHANGED <<issues, fixed_issues>>

\* add_item with any item, its id new to the graph or not.
AddAnyItem ==
    /\ \E id \in Ids :
         LET rest == DOMAIN items \ {id}
             room == MaxAddTargets - GraphTargets(items, rest, RelationType)
         IN \E chain \in ChainMaps[room] :
               LET item == GianttItem(id, <<>>, <<>>, chain)
               IN /\ items' = add_item(items, item)
                  /\ call' = [name |-> "add_item", graph |-> items, item |-> item]
    /\ ret' = NoRet
    /\ UNCHANGED <<issues, fixed_issues>>

\* Loading for the sort and insert commands.
AddItem == LoadItem(Ids, MaxTargets)

\* Loading for the doctor command.
\* The ids of the items in a graph the doctor is run on; "c" is only ever
\* referred to, so that every relation type can hold a dangling target
\* whatever is loaded.
DoctorIds == {"a", "b"}

DoctorAddItem == LoadItem(DoctorIds, MaxDoctorTargets)

\* Loading for a graph that is edited by insert_between and by the doctor.
EditAddItem == LoadItem(DoctorIds, MaxEditTargets)

\* --------------------------------------------------- safe_topological_sort
\* adj_list built from the REQUIRES and the UNLOCKS relations.
adj_list_WithUnlocks(g) ==
    [n \in DOMAIN g |->
        {t \in Range(Get(g[n].relations, "REQUIRES")) \cup Range(Get(g[n].relations, "UNLOCKS")) :
            t \in DOMAIN g}]

\* adj_list: item -> set of its REQUIRES targets that are keys of the graph
adj_list(g) ==
    [n \in DOMAIN g |-> {t \in Range(Get(g[n].relations, "REQUIRES")) : t \in DOMAIN g}]

\* in_degree counting the node's own targets instead of the items that list it.
in_degree_OwnTargets(adj) == [n \in DOMAIN adj |-> Cardinality(adj[n])]

\* in_degree: how many items list the node among their REQUIRES targets
in_degree(adj) == [n \in DOMAIN adj |-> Cardinality({m \in DOMAIN adj : n \in adj[m]})]

RECURSIVE KahnLoop(_, _, _, _)
\* The while-loop over the queue: the lists sorted_items can end as.  The
\* neighbours of the popped node are a set, iterated in any order.
KahnLoop(adj, queue, degree, sorted_items) ==
    IF queue = <<>> THEN {sorted_items}
    ELSE LET node == Head(queue)
             lowered == [n \in DOMAIN degree |->
                            IF n \in adj[node] THEN degree[n] - 1 ELSE degree[n]]
             freed == {n \in adj[node] : lowered[n] = 0}
         IN UNION {KahnLoop(adj, Tail(queue) \o appended, lowered, Append(sorted_items, node)) :
                     appended \in Perms(freed)}

\* The lists of ids Kahn's loop can pop, the queue starting with the nodes of
\* in-degree 0 in the dict's order.
KahnOrders(g) ==
    LET adj == adj_list(g)
        degree == in_degree(adj)
    IN UNION {KahnLoop(adj, queue, degree, <<>>) :
                queue \in Perms({n \in DOMAIN adj : degree[n] = 0})}

\* dfs returns None when it finds no cycle
None == <<>>

RECURSIVE dfs(_, _, _, _)
RECURSIVE dfsNeighbors(_, _, _, _)
\* The values dfs(current) can return with the given stack: the slice of the
\* stack from current on when current is on the stack, None when current was
\* popped by Kahn's loop, otherwise the first cycle a neighbour returns.
dfs(adj, visited, current, stack) ==
    IF current \in Range(stack)
    THEN {SubSeq(stack, IndexOf(stack, current), Len(stack))}
    ELSE IF current \in visited
    THEN {None}
    ELSE UNION {dfsNeighbors(adj, visited, order, Append(stack, current)) :
                  order \in Perms(adj[current])}

dfsNeighbors(adj, visited, neighbors, stack) ==
    IF neighbors = <<>> THEN {None}
    ELSE UNION {IF cycle # None THEN {cycle}
                ELSE dfsNeighbors(adj, visited, Tail(neighbors), stack) :
                  cycle \in dfs(adj, visited, Head(neighbors), stack)}

\* find_cycle: dfs from any unvisited node; a cycle found is closed by
\* appending its first id, and no cycle found gives [].
find_cycle(g, visited) ==
    LET unvisited == (DOMAIN g) \ visited
    IN UNION {{IF cycle # None THEN Append(cycle, cycle[1]) ELSE <<>> :
                 cycle \in dfs(adj_list(g), visited, start_node, <<>>)} :
               start_node \in unvisited}

\* What a call of safe_topological_sort can return or raise.
safe_topological_sort(g) ==
    UNION {IF Len(sorted_items) # Cardinality(DOMAIN g)
           THEN {[raised |-> "CycleDetectedException", cycle_items |-> cycle] :
                   cycle \in find_cycle(g, Range(sorted_items))}
           ELSE {[raised |-> "none", value |-> Reverse(sorted_items)]} :
             sorted_items \in KahnOrders(g)}

\* The sort writing the pruned REQUIRES lists back into the items.
GraphAfterSort_Pruned(g) ==
    [n \in DOMAIN g |->
        IF "REQUIRES" \in DOMAIN g[n].relations
        THEN [g[n] EXCEPT !.relations["REQUIRES"] = SelectSeq(@, LAMBDA t : t \in DOMAIN g)]
        ELSE g[n]]

\* The graph as the call leaves it: the sort reads self.items and writes only
\* its own locals.
GraphAfterSort(g) == g

Sort ==
    /\ \E outcome \in safe_topological_sort(items) : ret' = outcome
    /\ call' = [name |-> "safe_topological_sort", graph |-> items]
    /\ items' = GraphAfterSort(items)
    /\ UNCHANGED <<issues, fixed_issues>>

\* ---------------------------------------------------------- insert_between
\* The new items handed to insert_between: the insert command builds the item
\* from an id alone, with no relations.
NewItems == {GianttItem(id, <<>>, <<>>, NoRelations) : id \in Ids}

EndpointsMissing == "Both before and after items must exist"

NotInList == "list.remove(x): x not in list"

\* One of the two "Update existing items" blocks: when the item holds the
\* relation, list.remove(old) and list.append(new) on its list.  remove raises
\* ValueError when old is not in the list; the graph is then left as it is at
\* that point.
Rewire(g, item_id, rel_type, old, new) ==
    LET relations == g[item_id].relations
    IN IF rel_type \notin DOMAIN relations
       THEN [raised |-> "none", graph |-> g]
       ELSE IF old \notin Range(relations[rel_type])
       THEN [raised |-> "ValueError", graph |-> g]
       ELSE [raised |-> "none",
             graph |-> [g EXCEPT ![item_id].relations[rel_type] =
                                    Append(ListRemove(@, old), new)]]

\* new_item linked the other way round: it requires after_id and unlocks
\* before_id.
Linked_Reversed(new_item, before_id, after_id) ==
    [new_item EXCEPT !.relations =
        Put(Put(@, "REQUIRES", <<after_id>>), "UNLOCKS", <<before_id>>)]

\* new_item.relations['REQUIRES'] = [before_id]
\* new_item.relations['UNLOCKS'] = [after_id]
Linked(new_item, before_id, after_id) ==
    [new_item EXCEPT !.relations =
        Put(Put(@, "REQUIRES", <<before_id>>), "UNLOCKS", <<after_id>>)]

\* The body of insert_between below the endpoint check: new_item is linked,
\* then before_id's UNLOCKS and after_id's REQUIRES are rewired, then the item
\* is added.  An exception leaves behind what was done before it.
LinkAndRewire(g, new_item, before_id, after_id) ==
    LET linked == Linked(new_item, before_id, after_id)
        unlocks == Rewire(g, before_id, "UNLOCKS", after_id, new_item.id)
        requires == Rewire(unlocks.graph, after_id, "REQUIRES", before_id, new_item.id)
    IN IF unlocks.raised # "none"
       THEN [raised |-> "ValueError", message |-> NotInList,
             graph |-> unlocks.graph, new_item |-> linked]
       ELSE IF requires.raised # "none"
       THEN [raised |-> "ValueError", message |-> NotInList,
             graph |-> requires.graph, new_item |-> linked]
       ELSE [raised |-> "none", message |-> "",
             graph |-> add_item(requires.graph, linked), new_item |-> linked]

\* insert_between with the endpoint check placed after the update of
\* new_item's relations.
insert_between_LinkedBeforeCheck(g, new_item, before_id, after_id) ==
    IF before_id \notin DOMAIN g \/ after_id \notin DOMAIN g
    THEN [raised |-> "ValueError", message |-> EndpointsMissing,
          graph |-> g, new_item |-> Linked(new_item, before_id, after_id)]
    ELSE LinkAndRewire(g, new_item, before_id, after_id)

\* insert_between(new_item, before_id, after_id): the graph and the new_item
\* object as the call leaves them, and what it raised.
insert_between(g, new_item, before_id, after_id) ==
    IF before_id \notin DOMAIN g \/ after_id \notin DOMAIN g
    THEN [raised |-> "ValueError", message |-> EndpointsMissing,
          graph |-> g, new_item |-> new_item]
    ELSE LinkAndRewire(g, new_item, before_id, after_id)

\* The insert command: one insert_between on the loaded graph.
InsertBetween ==
    /\ Loading
    /\ \E new_item \in NewItems, before_id \in Ids, after_id \in Ids :
         LET done == insert_between(items, new_item, before_id, after_id)
         IN /\ items' = done.graph
            /\ call' = [name |-> "insert_between", graph |-> items, new_item |-> new_item,
                        before_id |-> before_id, after_id |-> after_id]
            /\ ret' = [raised |-> done.raised, message |-> done.message,
                       new_item |-> done.new_item]
    /\ UNCHANGED <<issues, fixed_issues>>

\* ----------------------------------------------------------- GianttDoctor
IssueType ==
    {"DANGLING_REFERENCE", "ORPHANED_ITEM", "INCOMPLETE_CHAIN",
     "CHART_INCONSISTENCY", "TAG_INCONSISTENCY"}

Issue(type, item_id, message, related_ids, suggested_fix) ==
    [type |-> type, item_id |-> item_id, message |-> message,
     related_ids |-> related_ids, suggested_fix |-> suggested_fix]

\* The order in which an item's relations dict is iterated: from_string
\* fills the dict in this order, and deleting a key keeps the order.
RelationOrder ==
    <<"REQUIRES", "UNLOCKS", "SUPERCHARGES", "INDICATES", "BEFORE", "WITH", "CONFLICTS">>

\* The relation names _fix_dangling_reference looks for in a message.
FixableRelNames ==
    <<"REQUIRES", "ANYOF", "SUPERCHARGES", "INDICATES", "TOGETHER", "CONFLICTS",
      "BLOCKS", "SUFFICIENT">>

\* str.lower() on the words of the model; the ids and the message texts hold
\* no upper-case letter that matters to a search.
Lower(word) ==
    CASE word = "REQUIRES" -> "requires"
      [] word = "UNLOCKS" -> "unlocks"
      [] word = "SUPERCHARGES" -> "supercharges"
      [] word = "INDICATES" -> "indicates"
      [] word = "BEFORE" -> "before"
      [] word = "WITH" -> "with"
      [] word = "CONFLICTS" -> "conflicts"
      [] word = "ANYOF" -> "anyof"
      [] word = "TOGETHER" -> "together"
      [] word = "BLOCKS" -> "blocks"
      [] word = "SUFFICIENT" -> "sufficient"
      [] OTHER -> word

\* str.upper() on the words of the model.
Upper(word) ==
    IF \E name \in RelationType : Lower(name) = word
    THEN CHOOSE name \in RelationType : Lower(name) = word
    ELSE word

\* A text is the sequence of its pieces: the literal parts of the f-string
\* and the values put between them.  `word in text.lower()`: none of the
\* literal parts and none of the ids of the model contains a relation name or
\* "--add", and no relation name contains another, so the word is in the
\* text exactly when a piece, lower-cased, is the word.
TextContains(text, word) == \E i \in 1..Len(text) : Lower(text[i]) = word

NoMatch == [matched |-> FALSE]

\* re.search(opening + "([^']+)'", text) for a text whose first piece ends
\* with the opening and whose second piece is the quoted value: the ids and
\* labels of the model are non-empty and hold no quote, so group(1) is the
\* second piece.
re_search(opening, text) ==
    IF Len(text) >= 3 /\ text[1] = opening
    THEN [matched |-> TRUE, group |-> text[2]]
    ELSE NoMatch

DanglingOpening == "References non-existent item '"

ChartOpening == "Item is related to items in chart '"

TagOpening == "Item is related to items with tag '"

RECURSIVE Flatten(_)
\* The concatenation of a sequence of lists.
Flatten(lists) == IF lists = <<>> THEN <<>> ELSE Head(lists) \o Flatten(Tail(lists))

RECURSIVE ConcatAll(_)
\* The concatenations that take one list from each set of lists in turn.
ConcatAll(sets) ==
    IF sets = <<>> THEN {<<>>}
    ELSE {h \o t : h \in Head(sets), t \in ConcatAll(Tail(sets))}

\* A loop over the set DOMAIN body whose pass for x appends one of the lists
\* in body[x]: the lists the loop can append in all.
ForEachIn(body) ==
    UNION {ConcatAll([i \in 1..Len(order) |-> body[order[i]]]) : order \in Perms(DOMAIN body)}

\* The issues _check_relations appends for one relation of one item.
DanglingIn(g, item_id, rel_type) ==
    LET missing == SelectSeq(g[item_id].relations[rel_type], LAMBDA t : t \notin DOMAIN g)
    IN [i \in 1..Len(missing) |->
          Issue("DANGLING_REFERENCE", item_id,
                <<DanglingOpening, missing[i], "' in ", Lower(rel_type), " relation">>,
                <<missing[i]>>,
                <<"giantt", "modify", item_id, "--remove", Lower(rel_type), missing[i]>>)]

\* _check_relations, the graph's dict iterated in the given order
check_relations(g, order) ==
    Flatten([i \in 1..Len(order) |->
        LET rels == SelectSeq(RelationOrder, LAMBDA r : r \in DOMAIN g[order[i]].relations)
        IN Flatten([j \in 1..Len(rels) |-> DanglingIn(g, order[i], rels[j])])])

\* _check_orphans without has_incoming.
check_orphans_OutgoingOnly(g, order) ==
    LET has_outgoing(item_id) == DOMAIN g[item_id].relations # {}
        orphans == SelectSeq(order, LAMBDA n : ~has_outgoing(n))
    IN [i \in 1..Len(orphans) |->
          Issue("ORPHANED_ITEM", orphans[i], <<"Item has no relations to other items">>,
                <<>>, <<"Consider connecting this item to related tasks">>)]

\* _check_orphans
check_orphans(g, order) ==
    LET has_incoming(item_id) ==
            \E other \in DOMAIN g : \E r \in DOMAIN g[other].relations :
                item_id \in Range(g[other].relations[r])
        has_outgoing(item_id) == DOMAIN g[item_id].relations # {}
        orphans == SelectSeq(order, LAMBDA n : ~has_incoming(n) /\ ~has_outgoing(n))
    IN [i \in 1..Len(orphans) |->
          Issue("ORPHANED_ITEM", orphans[i], <<"Item has no relations to other items">>,
                <<>>, <<"Consider connecting this item to related tasks">>)]

\* _check_chains without the look into requires_map.
check_chains_AnyUnlocked(g, order) ==
    LET unlocks_map == [n \in DOMAIN g |-> Range(Get(g[n].relations, "UNLOCKS"))]
        ChainIssue(item_id, unlocked) ==
            IF unlocked \in DOMAIN g
            THEN {<<Issue("INCOMPLETE_CHAIN", item_id,
                          <<"Item unlocks '", unlocked, "' but isn't required by it">>,
                          <<unlocked>>,
                          <<"giantt", "modify", unlocked, "requires", item_id>>)>>}
            ELSE {<<>>}
    IN ConcatAll([i \in 1..Len(order) |->
          ForEachIn([unlocked \in unlocks_map[order[i]] |-> ChainIssue(order[i], unlocked)])])

\* _check_chains: per item the set of its UNLOCKS targets is iterated
check_chains(g, order) ==
    LET unlocks_map == [n \in DOMAIN g |-> Range(Get(g[n].relations, "UNLOCKS"))]
        requires_map == [n \in DOMAIN g |-> Range(Get(g[n].relations, "REQUIRES"))]
        ChainIssue(item_id, unlocked) ==
            IF unlocked \in DOMAIN g /\ item_id \notin requires_map[unlocked]
            THEN {<<Issue("INCOMPLETE_CHAIN", item_id,
                          <<"Item unlocks '", unlocked, "' but isn't required by it">>,
                          <<unlocked>>,
                          <<"giantt", "modify", unlocked, "requires", item_id>>)>>}
            ELSE {<<>>}
    IN ConcatAll([i \in 1..Len(order) |->
          ForEachIn([unlocked \in unlocks_map[order[i]] |-> ChainIssue(order[i], unlocked)])])

\* The pattern _check_charts and _check_tags share: for every label, every
\* item that has it and every REQUIRES or UNLOCKS target of that item, an
\* issue when the target is in the graph, is not among the label's items and
\* has the label.
check_labels(g, type, field, opening, closing, property) ==
    LET all_labels == UNION {Range(g[n][field]) : n \in DOMAIN g}
        label_items(label) == {n \in DOMAIN g : label \in Range(g[n][field])}
        related_items(n) ==
            Range(Get(g[n].relations, "REQUIRES")) \cup Range(Get(g[n].relations, "UNLOCKS"))
        LabelIssue(label, item_id, related_id) ==
            IF /\ related_id \in DOMAIN g
               /\ related_id \notin label_items(label)
               /\ \E i \in 1..Len(g[related_id][field]) : g[related_id][field][i] = label
            THEN {<<Issue(type, related_id, <<opening, label, closing>>, <<item_id>>,
                          <<"giantt", "modify", related_id, property,
                            Append(g[related_id][field], label)>>)>>}
            ELSE {<<>>}
    IN ForEachIn([label \in all_labels |->
          ForEachIn([item_id \in label_items(label) |->
             ForEachIn([related_id \in related_items(item_id) |->
                LabelIssue(label, item_id, related_id)])])])

\* _check_charts
check_charts(g) ==
    check_labels(g, "CHART_INCONSISTENCY", "charts", ChartOpening, "' but isn't in it", "charts")

\* _check_tags
check_tags(g) ==
    check_labels(g, "TAG_INCONSISTENCY", "tags", TagOpening, "' but doesn't have it", "tags")

\* full_diagnosis: the issue lists it can return, the items dict iterated in
\* any one order throughout.
full_diagnosis(g) ==
    LET charts == check_charts(g)
        tags == check_tags(g)
    IN UNION {ConcatAll(<<{check_relations(g, order)}, {check_orphans(g, order)},
                          check_chains(g, order), charts, tags>>) :
                order \in Perms(DOMAIN g)}

Fixed(g) == [fixed |-> TRUE, raised |-> "none", graph |-> g]

NotFixed(g) == [fixed |-> FALSE, raised |-> "none", graph |-> g]

\* The first of the fixable relation names found in the message.
FirstMentioned(message) ==
    LET found == SelectSeq(FixableRelNames, LAMBDA rel_name : TextContains(message, Lower(rel_name)))
    IN IF found = <<>> THEN NoMatch ELSE [matched |-> TRUE, group |-> found[1]]

\* _fix_dangling_reference without "del item.relations[rel_type]" for a list
\* that has become empty.
fix_dangling_reference_KeepsEmpty(g, issue) ==
    IF issue.item_id \notin DOMAIN g THEN NotFixed(g)
    ELSE LET rel_type == FirstMentioned(issue.message)
             match == re_search(DanglingOpening, issue.message)
             relations == g[issue.item_id].relations
         IN IF ~rel_type.matched THEN NotFixed(g)
            ELSE IF ~match.matched THEN NotFixed(g)
            ELSE IF /\ rel_type.group \in DOMAIN relations
                    /\ match.group \in Range(relations[rel_type.group])
            THEN LET removed == ListRemove(relations[rel_type.group], match.group)
                 IN Fixed([g EXCEPT ![issue.item_id].relations =
                              Put(@, rel_type.group, removed)])
            ELSE NotFixed(g)

\* _fix_dangling_reference
fix_dangling_reference(g, issue) ==
    IF issue.item_id \notin DOMAIN g THEN NotFixed(g)
    ELSE LET rel_type == FirstMentioned(issue.message)
             match == re_search(DanglingOpening, issue.message)
             relations == g[issue.item_id].relations
         IN IF ~rel_type.matched THEN NotFixed(g)
            ELSE IF ~match.matched THEN NotFixed(g)
            ELSE IF /\ rel_type.group \in DOMAIN relations
                    /\ match.group \in Range(relations[rel_type.group])
            THEN LET removed == ListRemove(relations[rel_type.group], match.group)
                 IN Fixed([g EXCEPT ![issue.item_id].relations =
                              IF removed = <<>> THEN Del(@, rel_type.group)
                              ELSE Put(@, rel_type.group, removed)])
            ELSE NotFixed(g)

\* _fix_incomplete_chain; parts[5] raises IndexError on a suggested fix of
\* five words, after setdefault has stored the relation
fix_incomplete_chain(g, issue) ==
    IF issue.related_ids = <<>> \/ issue.suggested_fix = <<>> THEN NotFixed(g)
    ELSE IF issue.item_id \notin DOMAIN g \/ issue.related_ids[1] \notin DOMAIN g
    THEN NotFixed(g)
    ELSE LET parts == issue.suggested_fix
         IN IF Len(parts) < 5 THEN NotFixed(g)
            ELSE LET target_id == parts[3]
                     action == parts[4]
                     rel_type == Upper(parts[5])
                 IN IF target_id # issue.item_id /\ target_id # issue.related_ids[1]
                    THEN NotFixed(g)
                    ELSE IF TextContains(<<action>>, "--add") /\ rel_type # ""
                    THEN IF target_id \notin DOMAIN g THEN NotFixed(g)
                         ELSE LET defaulted ==
                                     [g EXCEPT ![target_id].relations =
                                         IF rel_type \in DOMAIN @ THEN @ ELSE Put(@, rel_type, <<>>)]
                                  listed == defaulted[target_id].relations[rel_type]
                              IN IF Len(parts) < 6
                                 THEN [fixed |-> FALSE, raised |-> "IndexError", graph |-> defaulted]
                                 ELSE IF parts[6] \notin Range(listed)
                                 THEN Fixed([defaulted EXCEPT
                                               ![target_id].relations[rel_type] = Append(@, parts[6])])
                                 ELSE Fixed(defaulted)
                    ELSE NotFixed(g)

\* _fix_chart_inconsistency and _fix_tag_inconsistency: the label named in
\* the message is appended to the item's list unless it is there
fix_label_inconsistency(g, issue, field, opening) ==
    IF issue.related_ids = <<>> \/ issue.suggested_fix = <<>> THEN NotFixed(g)
    ELSE IF issue.item_id \notin DOMAIN g THEN NotFixed(g)
    ELSE LET match == re_search(opening, issue.message)
         IN IF ~match.matched THEN NotFixed(g)
            ELSE IF match.group \notin Range(g[issue.item_id][field])
            THEN Fixed([g EXCEPT ![issue.item_id][field] = Append(@, match.group)])
            ELSE NotFixed(g)

\* _fix_issue
fix_issue(g, issue) ==
    IF issue.type = "DANGLING_REFERENCE" THEN fix_dangling_reference(g, issue)
    ELSE IF issue.type = "INCOMPLETE_CHAIN" THEN fix_incomplete_chain(g, issue)
    ELSE IF issue.type = "CHART_INCONSISTENCY"
    THEN fix_label_inconsistency(g, issue, "charts", ChartOpening)
    ELSE IF issue.type = "TAG_INCONSISTENCY"
    THEN fix_label_inconsistency(g, issue, "tags", TagOpening)
    ELSE NotFixed(g)

RECURSIVE FixEach(_, _, _)
\* The loop of fix_issues over issues_to_fix: the graph it leaves and the
\* issues fixed, in order; an exception ends the loop.
FixEach(g, issues_to_fix, fixed) ==
    IF issues_to_fix = <<>> THEN [raised |-> "none", graph |-> g, fixed |-> fixed]
    ELSE LET one == fix_issue(g, Head(issues_to_fix))
         IN IF one.raised # "none"
            THEN [raised |-> one.raised, graph |-> one.graph, fixed |-> fixed]
            ELSE FixEach(one.graph, Tail(issues_to_fix),
                         IF one.fixed THEN Append(fixed, Head(issues_to_fix)) ELSE fixed)

\* The fixed issues left in the open list.
RemoveEach_Kept(open, fixed) == open

RECURSIVE RemoveEach(_, _)
\* for issue in fixed: if issue in self.issues: self.issues.remove(issue)
RemoveEach(open, fixed) ==
    IF fixed = <<>> THEN open
    ELSE RemoveEach(IF Head(fixed) \in Range(open) THEN ListRemove(open, Head(fixed)) ELSE open,
                    Tail(fixed))

\* The value of an optional argument that is not given.
NotGiven == "None"

\* fix_issues(issue_type, item_id) on a doctor with the given graph and lists
fix_issues(g, open, fixed_before, issue_type, item_id) ==
    LET of_type == IF issue_type # NotGiven
                   THEN SelectSeq(open, LAMBDA issue : issue.type = issue_type) ELSE open
        issues_to_fix == IF item_id # NotGiven
                         THEN SelectSeq(of_type, LAMBDA issue : issue.item_id = item_id)
                         ELSE of_type
        loop == FixEach(g, issues_to_fix, <<>>)
    IN IF loop.raised # "none"
       THEN [raised |-> loop.raised, graph |-> loop.graph, issues |-> open,
             fixed_issues |-> fixed_before, fixed |-> <<>>]
       ELSE [raised |-> "none", graph |-> loop.graph, issues |-> RemoveEach(open, loop.fixed),
             fixed_issues |-> fixed_before \o loop.fixed, fixed |-> loop.fixed]

\* What the diagnosis records of the calls before it: the fix pass it
\* follows, if there was one.
Earlier ==
    IF call.name = "fix_issues" THEN call
    ELSE IF call.name = "full_diagnosis" THEN call.after
    ELSE [name |-> call.name]

\* The call before this one and the open list it left.
Previous == [name |-> call.name, issues |-> issues]

\* The issue list a pass starts from when it keeps the list it finds.
StartList_Kept(open) == open

\* self.issues = []
StartList(open) == <<>>

\* quick_check: the issue lists it can leave; it returns the length
quick_check(g) == {check_relations(g, order) : order \in Perms(DOMAIN g)}

\* The doctor command: a full diagnosis of the loaded graph.
FullDiagnosis ==
    /\ \E found \in full_diagnosis(items) :
         /\ issues' = StartList(issues) \o found
         /\ ret' = [raised |-> "none", value |-> issues']
    /\ call' = [name |-> "full_diagnosis", graph |-> items, after |-> Earlier,
                previous |-> Previous]
    /\ UNCHANGED <<items, fixed_issues>>

\* A quick check on the doctor (run_quick_check does it before a save).
QuickCheck ==
    /\ \E found \in quick_check(items) :
         /\ issues' = StartList(issues) \o found
         /\ ret' = [raised |-> "none", value |-> Len(issues')]
    /\ call' = [name |-> "quick_check", graph |-> items, previous |-> Previous]
    /\ UNCHANGED <<items, fixed_issues>>

\* One fix pass over the issues of a diagnosis.
FixWith(issue_type, item_id) ==
    LET done == fix_issues(items, issues, fixed_issues, issue_type, item_id)
    IN /\ items' = done.graph
       /\ issues' = done.issues
       /\ fixed_issues' = done.fixed_issues
       /\ ret' = [raised |-> done.raised, value |-> done.fixed]
       /\ call' = [name |-> "fix_issues", issue_type |-> issue_type, item_id |-> item_id,
                   graph |-> items, issues |-> issues, fixed_issues |-> fixed_issues,
                   after |-> call.after]

\* The first fix pass on a doctor, with a filter from the given sets.
FixPass(issue_types, item_ids) ==
    /\ call.name = "full_diagnosis"
    /\ call.after.name # "fix_issues"
    /\ \E issue_type \in issue_types, item_id \in item_ids : FixWith(issue_type, item_id)

\* The issue types _fix_issue has a fixer for.
FixableTypes == IssueType \ {"ORPHANED_ITEM"}

\* A first fix pass for all the issues of one fixable type.
TypeFixIssues == FixPass(FixableTypes, {NotGiven})

\* The second diagnose-and-fix pass: the fix pass with the filter of the
\* first, after the diagnosis that followed the first.
FixAgain ==
    /\ call.name = "full_diagnosis"
    /\ call.after.name = "fix_issues"
    /\ call.after.after.name # "fix_issues"
    /\ FixWith(call.after.issue_type, call.after.item_id)

\* A fix pass with any filter.
FixIssues == FixPass(IssueType \cup {NotGiven}, Ids \cup {NotGiven})

\* A fix pass for the chart or the tag inconsistencies of the graph.
LabelFixIssues == FixPass({"CHART_INCONSISTENCY", "TAG_INCONSISTENCY"}, {NotGiven})

\* ------------------------------------------------ what the claims speak of
\* The REQUIRES targets of item n that are ids of the graph.
RequiredPresent(g, n) == {t \in Range(Get(g[n].relations, "REQUIRES")) : t \in DOMAIN g}

RECURSIVE RequiredClosure(_, _)
\* The ids reached from the set S by following REQUIRES edges between items
\* of the graph, S included.
RequiredClosure(g, S) ==
    LET next == S \cup UNION {RequiredPresent(g, n) : n \in S}
    IN IF next = S THEN S ELSE RequiredClosure(g, next)

\* Some item requires itself, directly or through other items of the graph.
HasRequiresCycle(g) ==
    \E n \in DOMAIN g : n \in RequiredClosure(g, RequiredPresent(g, n))

Position(s, x) == CHOOSE i \in 1..Len(s) : s[i] = x

SortCalled == call.name = "safe_topological_sort"

SortReturned == SortCalled /\ ret.raised = "none"

SortRaised == SortCalled /\ ret.raised = "CycleDetectedException"

\* The list holds every id of the graph exactly once.
EveryItemOnce(g, order) ==
    /\ Range(order) = DOMAIN g
    /\ Len(order) = Cardinality(DOMAIN g)

\* Every item comes after the items of the graph that it requires.
RequiredFirst(g, order) ==
    \A A \in DOMAIN g : \A B \in RequiredPresent(g, A) :
        Position(order, B) < Position(order, A)

OnlyRequires(g) ==
    [n \in DOMAIN g |->
        [g[n] EXCEPT !.relations = [r \in (DOMAIN @) \cap {"REQUIRES"} |-> @[r]]]]

\* C2: safe_topological_sort raises CycleDetectedException exactly when the
\* REQUIRES edges between present items contain a cycle (a self-requirement
\* included), and its outcome is one the graph stripped of its UNLOCKS,
\* SUPERCHARGES, INDICATES, BEFORE, WITH and CONFLICTS relations has too.
C2_RaisesIffRequiresCycle ==
    SortCalled =>
        /\ (ret.raised = "CycleDetectedException") <=> HasRequiresCycle(items)
        /\ safe_topological_sort(items) = safe_topological_sort(OnlyRequires(items))

\* A sort has returned an order although a relation of another type points
\* from an item to itself, and the item requires a present item.
C2_Witness ==
    /\ SortReturned
    /\ \E n \in DOMAIN items :
         /\ \E r \in (DOMAIN items[n].relations) \ {"REQUIRES"} : n \in Range(items[n].relations[r])
         /\ RequiredPresent(items, n) # {}

\* The sort has raised on an item that requires itself.
C2_WitnessRaised ==
    /\ SortRaised
    /\ \E n \in DOMAIN items : n \in RequiredPresent(items, n)

\* The id sequence is a closed walk along REQUIRES edges.
RealClosedCycle(g, cycle) ==
    /\ cycle # <<>>
    /\ cycle[1] = cycle[Len(cycle)]
    /\ \A i \in 1..(Len(cycle) - 1) :
         /\ cycle[i] \in DOMAIN g
         /\ cycle[i + 1] \in Range(Get(g[cycle[i]].relations, "REQUIRES"))

\* C3: whenever safe_topological_sort fails, the ids the exception carries
\* are a real closed cycle: non-empty, first id equal to last, every id
\* listing the next one under REQUIRES.
C3_CyclePathIsClosedCycle ==
    SortRaised => RealClosedCycle(items, ret.cycle_items)

\* The sort of the chain A requires B requires C.
ChainOf(A, B, C) ==
    /\ DOMAIN items = {A, B, C}
    /\ Cardinality({A, B, C}) = 3
    /\ RequiredPresent(items, A) = {B}
    /\ RequiredPresent(items, B) = {C}

\* C4 as stated: A requires B requires C sorts to [A, B, C], the item
\* without REQUIRES of its own last.
C4_ChainSortsDependentsFirst ==
    \A A, B, C \in Ids :
        (SortCalled /\ ChainOf(A, B, C) /\ RequiredPresent(items, C) = {}) =>
            (ret.raised = "none" /\ ret.value = <<A, B, C>>)

\* C4 amended: A requires B requires C sorts to [C, B, A], the item without
\* REQUIRES of its own first; when C also requires A the sort raises
\* CycleDetectedException with a path that runs through A, B, C in this
\* cyclic order and closes on its first id.
C4_ChainSortsRequiredFirst ==
    \A A, B, C \in Ids :
        (SortCalled /\ ChainOf(A, B, C)) =>
            /\ RequiredPresent(items, C) = {} =>
                 (ret.raised = "none" /\ ret.value = <<C, B, A>>)
            /\ RequiredPresent(items, C) = {A} =>
                 /\ ret.raised = "CycleDetectedException"
                 /\ ret.cycle_items \in {<<A, B, C, A>>, <<B, C, A, B>>, <<C, A, B, C>>}

\* The chain has been sorted.
C4_Witness ==
    /\ SortReturned
    /\ ChainOf("a", "b", "c")
    /\ RequiredPresent(items, "c") = {}

\* The chain closed by C requires A has been sorted.
C4_WitnessCycle ==
    /\ SortRaised
    /\ ChainOf("a", "b", "c")
    /\ RequiredPresent(items, "c") = {"a"}

\* C8: safe_topological_sort leaves the graph as it found it, whether it
\* returns an order or raises CycleDetectedException.
C8_SortLeavesGraphUnchanged ==
    SortCalled => items = call.graph

\* The sort has raised on a graph that holds relations with absent targets.
C8_Witness ==
    /\ SortRaised
    /\ \E n \in DOMAIN items : \E r \in DOMAIN items[n].relations :
         Range(items[n].relations[r]) \ DOMAIN items # {}

InsertCalled == call.name = "insert_between"

\* The targets an item of graph g lists under a relation type.
Targets(g, id, rel_type) == Range(Get(g[id].relations, rel_type))

\* C5: insert_between fails whenever before_id or after_id is not an id of
\* the graph, and then changes nothing: the graph, with every item's relation
\* lists, and new_item's relations are as before the call.
C5_MissingEndpointChangesNothing ==
    (InsertCalled /\ ({call.before_id, call.after_id} \ DOMAIN call.graph # {})) =>
        /\ ret.raised = "ValueError"
        /\ items = call.graph
        /\ ret.new_item = call.new_item
        /\ call.new_item.id \notin DOMAIN call.graph => call.new_item.id \notin DOMAIN items

\* insert_between was called with a before item that unlocks an absent after
\* id, for a new id that is not in the graph.
C5_Witness ==
    /\ InsertCalled
    /\ call.before_id \in DOMAIN call.graph
    /\ call.after_id \notin DOMAIN call.graph
    /\ call.after_id \in Targets(call.graph, call.before_id, "UNLOCKS")
    /\ call.new_item.id \notin DOMAIN call.graph

\* Both endpoints are items of the graph insert_between was called on.
EndpointsPresent == {call.before_id, call.after_id} \subseteq DOMAIN call.graph

\* new_item is in the graph with REQUIRES = [before_id], UNLOCKS = [after_id].
NewItemLinkedIn ==
    /\ call.new_item.id \in DOMAIN items
    /\ items[call.new_item.id].id = call.new_item.id
    /\ Get(items[call.new_item.id].relations, "REQUIRES") = <<call.before_id>>
    /\ Get(items[call.new_item.id].relations, "UNLOCKS") = <<call.after_id>>

\* The id of new_item is not an id of the graph insert_between was called on.
NewIdFresh == call.new_item.id \notin DOMAIN call.graph

\* C6: with both endpoints in the graph, after_id in before_id's UNLOCKS and
\* before_id in after_id's REQUIRES, insert_between adds new_item with
\* REQUIRES = [before_id] and UNLOCKS = [after_id]; afterwards before_id's
\* UNLOCKS holds new_item's id and no longer after_id, and after_id's
\* REQUIRES holds new_item's id and no longer before_id.  Stated for the
\* calls whose new id is not yet in the graph, where it already fails.
C6_InsertRoutesThroughNewItem ==
    (/\ InsertCalled
     /\ EndpointsPresent
     /\ NewIdFresh
     /\ call.after_id \in Targets(call.graph, call.before_id, "UNLOCKS")
     /\ call.before_id \in Targets(call.graph, call.after_id, "REQUIRES")) =>
        /\ ret.raised = "none"
        /\ NewItemLinkedIn
        /\ call.new_item.id \in Targets(items, call.before_id, "UNLOCKS")
        /\ call.after_id \notin Targets(items, call.before_id, "UNLOCKS")
        /\ call.new_item.id \in Targets(items, call.after_id, "REQUIRES")
        /\ call.before_id \notin Targets(items, call.after_id, "REQUIRES")

UnlocksEdgeAbsent == call.after_id \notin Targets(call.graph, call.before_id, "UNLOCKS")

RequiresEdgeAbsent == call.before_id \notin Targets(call.graph, call.after_id, "REQUIRES")

\* C7: with both endpoints in the graph and the direct edge of one side
\* absent (the relation missing, or not holding the other endpoint),
\* insert_between does not fail, leaves that side's list as it was and adds
\* new_item with REQUIRES = [before_id] and UNLOCKS = [after_id].  Stated for
\* the calls whose new id is not yet in the graph, where it already fails.
C7_AbsentEdgeIsSkipped ==
    (InsertCalled /\ EndpointsPresent /\ NewIdFresh
        /\ (UnlocksEdgeAbsent \/ RequiresEdgeAbsent)) =>
        /\ ret.raised = "none"
        /\ NewItemLinkedIn
        /\ UnlocksEdgeAbsent =>
              Get(items[call.before_id].relations, "UNLOCKS")
                 = Get(call.graph[call.before_id].relations, "UNLOCKS")
        /\ RequiresEdgeAbsent =>
              Get(items[call.after_id].relations, "REQUIRES")
                 = Get(call.graph[call.after_id].relations, "REQUIRES")

\* ----------------------------------------------------------- specifications
DiagnosisReturned == call.name = "full_diagnosis"

DanglingIssues(found) == SelectSeq(found, LAMBDA issue : issue.type = "DANGLING_REFERENCE")

\* The reported dangling-reference issues about target t in relation r of item n.
IssuesAbout(found, n, r, t) ==
    SelectSeq(DanglingIssues(found), LAMBDA issue :
        /\ issue.item_id = n
        /\ issue.related_ids = <<t>>
        /\ TextContains(issue.message, Lower(r)))

IsDangling(g, n, r, t) ==
    /\ r \in DOMAIN g[n].relations
    /\ t \in Range(g[n].relations[r])
    /\ t \notin DOMAIN g

\* C9: full_diagnosis reports exactly one DANGLING_REFERENCE issue for each
\* (source item, relation type, target) whose target is listed in that relation
\* of the source and is not an id of the graph, and none for any other triple;
\* an item X with REQUIRES = [Y], Y absent, yields exactly one, with item_id X
\* and related_ids [Y].
C9_OneIssuePerDanglingTriple ==
    DiagnosisReturned =>
        \A n \in DOMAIN call.graph, r \in RelationType, t \in Ids :
            Len(IssuesAbout(ret.value, n, r, t)) =
                IF IsDangling(call.graph, n, r, t) THEN 1 ELSE 0

\* Item X of the graph has REQUIRES = [Y] and Y is not in the graph.
RequiresOnlyAbsent(g, X, Y) ==
    /\ X \in DOMAIN g
    /\ Y \notin DOMAIN g
    /\ Get(g[X].relations, "REQUIRES") = <<Y>>

DanglingFixPass(c) == c.name = "fix_issues" /\ c.issue_type = "DANGLING_REFERENCE"

\* After the fix pass, Y is no longer in X's REQUIRES list.
AbsentRequiredRemoved ==
    DanglingFixPass(call) =>
        \A X, Y \in Ids :
            RequiresOnlyAbsent(call.graph, X, Y) /\ call.item_id \in {NotGiven, X}
                => Y \notin Range(Get(items[X].relations, "REQUIRES"))

\* The diagnosis that follows a fix pass over all the dangling references of
\* such a graph reports no dangling reference.
NoDanglingAfterFix ==
    /\ DiagnosisReturned
    /\ DanglingFixPass(call.after)
    /\ call.after.item_id = NotGiven
    /\ \E X, Y \in Ids : RequiresOnlyAbsent(call.after.graph, X, Y)
    => DanglingIssues(ret.value) = <<>>

\* C10: after a diagnosis of a graph in which item X has REQUIRES = [Y] and Y
\* is absent, a fix pass for dangling references removes Y from X's REQUIRES
\* list, and the diagnosis that follows reports no dangling-reference issue.
C10_FixRemovesDanglingRequires == AbsentRequiredRemoved /\ NoDanglingAfterFix

IssuesOfType(found, type) == SelectSeq(found, LAMBDA issue : issue.type = type)

\* A, B and C are items of the graph; A and B are in the chart and C is not;
\* A and C list B under REQUIRES.
ChartScenario(g, A, B, C, chart) ==
    /\ {A, B, C} \subseteq DOMAIN g
    /\ A # B /\ B # C /\ A # C
    /\ chart \in Range(g[A].charts) /\ chart \in Range(g[B].charts)
    /\ chart \notin Range(g[C].charts)
    /\ B \in Range(Get(g[A].relations, "REQUIRES"))
    /\ B \in Range(Get(g[C].relations, "REQUIRES"))

ChartFixPass(c) == c.name = "fix_issues" /\ c.issue_type = "CHART_INCONSISTENCY"

\* C11: with A in chart Foo requiring B that is in Foo too, and C requiring B
\* outside Foo, full_diagnosis reports exactly one CHART_INCONSISTENCY issue,
\* about C; the fix pass for it puts Foo among C's charts and leaves no chart
\* issue open.
C11_ChartIssueNamesOutsider ==
    \A A, B, C \in Ids, chart \in Charts :
        /\ DiagnosisReturned /\ ChartScenario(call.graph, A, B, C, chart)
              => LET found == IssuesOfType(ret.value, "CHART_INCONSISTENCY")
                 IN Len(found) = 1 /\ found[1].item_id = C
        /\ ChartFixPass(call) /\ ChartScenario(call.graph, A, B, C, chart)
              => /\ chart \in Range(items[C].charts)
                 /\ IssuesOfType(issues, "CHART_INCONSISTENCY") = <<>>

\* The diagnosis that follows the first fix pass.
SecondDiagnosis ==
    /\ DiagnosisReturned
    /\ call.after.name = "fix_issues"
    /\ call.after.after.name # "fix_issues"

\* The fix pass that follows that diagnosis.
SecondFixPass == call.name = "fix_issues" /\ call.after.name = "fix_issues"

\* C12: after one diagnose-and-fix pass for a fixable issue type, the second
\* diagnosis finds no issue of that type and the second fix pass leaves the
\* graph as it was.
C12_SecondPassFindsNothing ==
    /\ SecondDiagnosis => IssuesOfType(ret.value, call.after.issue_type) = <<>>
    /\ SecondFixPass => items = call.graph

\* A lists B under UNLOCKS, B is an item of the graph and does not list A
\* under REQUIRES.
IsIncompleteChain(g, A, B) ==
    /\ A \in DOMAIN g /\ B \in DOMAIN g
    /\ B \in Range(Get(g[A].relations, "UNLOCKS"))
    /\ A \notin Range(Get(g[B].relations, "REQUIRES"))

\* The INCOMPLETE_CHAIN issues of the list that are attached to A and refer to B.
ChainIssuesAbout(found, A, B) ==
    SelectSeq(IssuesOfType(found, "INCOMPLETE_CHAIN"),
              LAMBDA issue : issue.item_id = A /\ issue.related_ids = <<B>>)

FirstChainFixPass(c) ==
    c.name = "fix_issues" /\ c.issue_type = "INCOMPLETE_CHAIN" /\ c.after.name # "fix_issues"

\* C13: when the diagnosis has reported that A unlocks another item B and B
\* does not require A, the fix pass for incomplete chains adds A to B's REQUIRES list,
\* returns the issue as fixed and takes it off the open list, and the next
\* diagnosis no longer reports it.
C13_ChainFixAddsRequires ==
    \A A \in Ids : \A B \in Ids \ {A} :
        /\ FirstChainFixPass(call) /\ ChainIssuesAbout(call.issues, A, B) # <<>>
              => /\ A \in Range(Get(items[B].relations, "REQUIRES"))
                 /\ ChainIssuesAbout(ret.value, A, B) # <<>>
                 /\ ChainIssuesAbout(issues, A, B) = <<>>
        /\ SecondDiagnosis /\ FirstChainFixPass(call.after)
              /\ ChainIssuesAbout(call.after.issues, A, B) # <<>>
              => ChainIssuesAbout(ret.value, A, B) = <<>>

\* C14: full_diagnosis reports an INCOMPLETE_CHAIN issue with item_id A and
\* related_ids [B] exactly when A lists B under UNLOCKS, B is an item of the
\* graph and B does not list A under REQUIRES; every INCOMPLETE_CHAIN issue
\* it reports is of that form.
C14_ChainIssueIffAsymmetric ==
    DiagnosisReturned =>
        /\ \A A, B \in Ids :
              ChainIssuesAbout(ret.value, A, B) # <<>> <=> IsIncompleteChain(call.graph, A, B)
        /\ \A i \in 1..Len(ret.value) :
              ret.value[i].type = "INCOMPLETE_CHAIN"
                 => \E B \in Ids : ret.value[i].related_ids = <<B>>

\* A diagnosis that reports a chain issue for two different items.
C14_Witness ==
    /\ DiagnosisReturned
    /\ \E A \in Ids : \E B \in Ids \ {A} : ChainIssuesAbout(ret.value, A, B) # <<>>

\* A diagnosis of a graph where A unlocks B and B requires A.
C14_WitnessSymmetric ==
    /\ DiagnosisReturned
    /\ \E A \in DOMAIN call.graph : \E B \in DOMAIN call.graph \ {A} :
          /\ B \in Range(Get(call.graph[A].relations, "UNLOCKS"))
          /\ A \in Range(Get(call.graph[B].relations, "REQUIRES"))
          /\ ChainIssuesAbout(ret.value, A, B) = <<>>

\* X has no target under any relation type and no item of the graph lists X.
IsOrphan(g, X) ==
    /\ X \in DOMAIN g
    /\ \A r \in RelationType : Get(g[X].relations, r) = <<>>
    /\ \A n \in DOMAIN g, r \in RelationType : X \notin Range(Get(g[n].relations, r))

OrphanIssuesAbout(found, X) ==
    SelectSeq(IssuesOfType(found, "ORPHANED_ITEM"), LAMBDA issue : issue.item_id = X)

\* C15: full_diagnosis reports an ORPHANED_ITEM issue for X if and only if X
\* has no outgoing relation of any type and no relation list of any item
\* holds X's id, and then it reports exactly one.
C15_OrphanIffUnrelated ==
    DiagnosisReturned =>
        \A X \in Ids :
            Len(OrphanIssuesAbout(ret.value, X)) = IF IsOrphan(call.graph, X) THEN 1 ELSE 0

\* A diagnosis that reports an orphan.
C15_Witness ==
    /\ DiagnosisReturned
    /\ \E X \in Ids : IsOrphan(call.graph, X) /\ Len(OrphanIssuesAbout(ret.value, X)) = 1

\* A diagnosis of a graph with an item that has no relations and is listed by
\* another item.
C15_WitnessListed ==
    /\ DiagnosisReturned
    /\ \E X \in DOMAIN call.graph :
          /\ DOMAIN call.graph[X].relations = {}
          /\ ~IsOrphan(call.graph, X)
          /\ OrphanIssuesAbout(ret.value, X) = <<>>

\* Two issues agree on the fields other than the texts.
SameFields(i1, i2) ==
    /\ i1.type = i2.type
    /\ i1.item_id = i2.item_id
    /\ i1.related_ids = i2.related_ids

\* C16: what a fix pass does for an issue follows from the issue's type,
\* item_id and related_ids and not from its message: any two issues of the
\* list the pass worked on that agree on these fields get the same graph
\* mutation and the same fixed / not fixed outcome.
C16_FixIgnoresMessage ==
    call.name = "fix_issues" =>
        \A i, j \in 1..Len(call.issues) :
            SameFields(call.issues[i], call.issues[j])
                => fix_issue(call.graph, call.issues[i]) = fix_issue(call.graph, call.issues[j])

FixReturned == call.name = "fix_issues" /\ ret.raised = "none"

\* The issue passes every filter given to the fix pass.
MatchesFilter(issue, c) ==
    /\ c.issue_type = NotGiven \/ issue.type = c.issue_type
    /\ c.item_id = NotGiven \/ issue.item_id = c.item_id

\* How many elements of the list equal x.
Count(list, x) == Cardinality({i \in 1..Len(list) : list[i] = x})

RECURSIVE IsSubsequence(_, _)
\* The short list is the long one with some elements taken out.
IsSubsequence(short, long) ==
    IF short = <<>> THEN TRUE
    ELSE IF long = <<>> THEN FALSE
    ELSE IF Head(short) = Head(long) THEN IsSubsequence(Tail(short), Tail(long))
    ELSE IsSubsequence(short, Tail(long))

\* C17: fix_issues(issue_type, item_id) returns only open issues that pass
\* every filter given; each issue it returns has been applied to the graph
\* (one target fewer in the relations of its item), has left the open list and
\* is appended to fixed_issues; every other open issue stays in the open list,
\* in order, and the items no returned issue is about are as they were.
C17_FixTouchesOnlyFixedIssues ==
    FixReturned =>
        /\ \A i \in 1..Len(ret.value) :
              MatchesFilter(ret.value[i], call) /\ ret.value[i] \in Range(call.issues)
        /\ fixed_issues = call.fixed_issues \o ret.value
        /\ \A x \in Range(call.issues) :
              Count(issues, x) + Count(ret.value, x) = Count(call.issues, x)
        /\ IsSubsequence(issues, call.issues)
        /\ DOMAIN items = DOMAIN call.graph
        /\ \A n \in DOMAIN items :
              LET about == SelectSeq(ret.value, LAMBDA issue : issue.item_id = n)
              IN /\ about = <<>> => items[n] = call.graph[n]
                 /\ TargetsOf(items[n].relations, RelationType)
                       = TargetsOf(call.graph[n].relations, RelationType) - Len(about)

\* A fix pass with an item filter that fixed one issue and left another open.
C17_Witness ==
    /\ FixReturned
    /\ call.item_id # NotGiven
    /\ ret.value # <<>>
    /\ issues # <<>>
    /\ \E i \in 1..Len(issues) : issues[i].type = "DANGLING_REFERENCE"

DiagnosisPass == call.name \in {"full_diagnosis", "quick_check"}

\* The two lists hold the same issues the same number of times.
SameIssues(found, other) ==
    /\ Len(found) = Len(other)
    /\ \A x \in Range(found) \cup Range(other) : Count(found, x) = Count(other, x)

\* C18: full_diagnosis and quick_check leave the graph as it is; each pass
\* starts from an empty list, so what it leaves and returns is a result of
\* diagnosing the current graph alone, and a full diagnosis right after a full
\* diagnosis yields the same issues, each as often as before (the order in
\* which a pass meets the items is drawn anew).
C18_DiagnosisIsReadOnlyAndFresh ==
    /\ DiagnosisPass => items = call.graph
    /\ call.name = "full_diagnosis" => issues = ret.value /\ ret.value \in full_diagnosis(items)
    /\ call.name = "quick_check" => ret.value = Len(issues) /\ issues \in quick_check(items)
    /\ call.name = "full_diagnosis" /\ call.previous.name = "full_diagnosis"
          => SameIssues(ret.value, call.previous.issues)

\* A full diagnosis that found issues, run right after a full diagnosis.
C18_Witness ==
    /\ call.name = "full_diagnosis"
    /\ call.previous.name = "full_diagnosis"
    /\ call.previous.issues # <<>>
    /\ ret.value # <<>>

\* A quick check run on a doctor whose open list held other issues than
\* dangling references.
C18_WitnessQuick ==
    /\ call.name = "quick_check"
    /\ \E i \in 1..Len(call.previous.issues) : call.previous.issues[i].type = "ORPHANED_ITEM"
    /\ ret.value > 0

AddCalled == call.name = "add_item"

\* C19: add_item never rejects an item: afterwards the graph maps item.id to
\* the item; an id that was present keeps its place with the new item and the
\* number of items does not grow; every other id keeps its item; and in every
\* state each key of the graph is the id of the item stored under it.
C19_AddItemLastWriteWins ==
    /\ \A k \in DOMAIN items : items[k].id = k
    /\ AddCalled =>
          /\ ret.raised = "none"
          /\ items[call.item.id] = call.item
          /\ DOMAIN items = DOMAIN call.graph \cup {call.item.id}
          /\ call.item.id \in DOMAIN call.graph
                => Cardinality(DOMAIN items) = Cardinality(DOMAIN call.graph)
          /\ \A k \in DOMAIN call.graph \ {call.item.id} : items[k] = call.graph[k]

\* add_item has replaced the item of an id by a different item.
C19_Witness ==
    /\ AddCalled
    /\ call.item.id \in DOMAIN call.graph
    /\ call.graph[call.item.id] # call.item
    /\ Cardinality(DOMAIN items) > 1

\* ---------------------------------------------------------------------------
\* The item codec of models.py: GianttItem.to_string and GianttItem.from_string
\* (the pair cli.py's load_file and save_file use).  A line is a sequence of
\* characters, each a string of length one.
\* ---------------------------------------------------------------------------

\* The most charts of an item the codec is given.
MaxCharts == 2

\* str.join
RECURSIVE Join(_, _)

Join(parts, sep) ==
    IF parts = <<>> THEN <<>>
    ELSE IF Len(parts) = 1 THEN parts[1]
    ELSE parts[1] \o sep \o Join(Tail(parts), sep)

\* text[i:] of Python, for a position i counted from one.
From(text, i) == SubSeq(text, i, Len(text))

\* str.startswith at a position.
MatchesAt(text, pat, i) ==
    /\ i >= 1
    /\ i + Len(pat) - 1 <= Len(text)
    /\ SubSeq(text, i, i + Len(pat) - 1) = pat

\* str.endswith
EndsWith(text, pat) == MatchesAt(text, pat, Len(text) - Len(pat) + 1)

\* str.find(pat, start): the first position at or after start, counted from
\* one, where pat occurs; 0 stands for Python's -1.
Find(text, pat, start) ==
    LET hits == {i \in start..Len(text) : MatchesAt(text, pat, i)}
    IN IF hits = {} THEN 0 ELSE CHOOSE i \in hits : \A j \in hits : i <= j

\* str.split(sep)
RECURSIVE Split(_, _)

Split(text, sep) ==
    LET i == Find(text, sep, 1)
    IN IF i = 0 THEN <<text>>
       ELSE <<SubSeq(text, 1, i - 1)>> \o Split(From(text, i + Len(sep)), sep)

\* str.lstrip(chars)
RECURSIVE LStrip(_, _)

LStrip(text, chars) ==
    IF text # <<>> /\ Head(text) \in chars THEN LStrip(Tail(text), chars) ELSE text

\* str.strip(chars)
StripChars(text, chars) == Reverse(LStrip(Reverse(LStrip(text, chars)), chars))

\* The whitespace of the lines the codec writes.
Whitespace == {" "}

\* str.strip()
Strip(text) == StripChars(text, Whitespace)

\* The longest prefix of text whose characters all lie in chars.
RECURSIVE Run(_, _)

Run(text, chars) ==
    IF text # <<>> /\ Head(text) \in chars THEN <<Head(text)>> \o Run(Tail(text), chars)
    ELSE <<>>

\* An exception leaving a call.
Raised(kind) == [raised |-> kind]

IsRaised(value) == DOMAIN value = {"raised"}

\* Status: the glyph of each member; a glyph is one character, written by
\* its code point.
Status ==
    [NOT_STARTED |-> "U+25CB", IN_PROGRESS |-> "U+25D1",
     BLOCKED |-> "U+2298", COMPLETED |-> "U+25CF"]

\* Priority: the suffix of each member, as characters.
Priority ==
    [LOWEST   |-> <<",", ",", ",">>,
     LOW      |-> <<".", ".", ".">>,
     NEUTRAL  |-> <<>>,
     UNSURE   |-> <<"?">>,
     MEDIUM   |-> <<"!">>,
     HIGH     |-> <<"!", "!">>,
     CRITICAL |-> <<"!", "!", "!">>]

\* RelationType: the glyph of each member.
RelationGlyph ==
    [rel_type \in RelationType |->
        CASE rel_type = "REQUIRES" -> "U+22A2"
          [] rel_type = "UNLOCKS" -> "U+25BA"
          [] rel_type = "SUPERCHARGES" -> "U+226B"
          [] rel_type = "INDICATES" -> "U+2234"
          [] rel_type = "BEFORE" -> "U+21B6"
          [] rel_type = "WITH" -> "U+222A"
          [] rel_type = "CONFLICTS" -> "U+2297"]

\* The outcome of Enum(value) when no member has the value: Python raises
\* ValueError.
NoMember == "ValueError"

\* Enum(value): the member whose value is the given one.
MemberOf(enum, value) ==
    IF \E m \in DOMAIN enum : enum[m] = value
    THEN CHOOSE m \in DOMAIN enum : enum[m] = value
    ELSE NoMember

DigitChars == <<"0", "1", "2", "3", "4", "5", "6", "7", "8", "9">>

\* str(n) of a natural number.
RECURSIVE ToDigits(_)

ToDigits(n) ==
    IF n < 10 THEN <<DigitChars[n + 1]>>
    ELSE Append(ToDigits(n \div 10), DigitChars[(n % 10) + 1])

\* int(text) of a run of digits.
RECURSIVE FromDigits(_)

FromDigits(text) ==
    IF text = <<>> THEN 0
    ELSE FromDigits(SubSeq(text, 1, Len(text) - 1)) * 10
         + (IndexOf(DigitChars, text[Len(text)]) - 1)

\* [a-zA-Z]
Letters ==
    {"a", "b", "c", "d", "e", "f", "g", "h", "i", "j", "k", "l", "m",
     "n", "o", "p", "q", "r", "s", "t", "u", "v", "w", "x", "y", "z",
     "A", "B", "C", "D", "E", "F", "G", "H", "I", "J", "K", "L", "M",
     "N", "O", "P", "Q", "R", "S", "T", "U", "V", "W", "X", "Y", "Z"}

\* DurationPart._UNIT_SECONDS, by unit.
UNIT_SECONDS(unit) ==
    CASE unit = <<"s">> -> 1
      [] unit = <<"m", "i", "n">> -> 60
      [] unit = <<"h">> -> 3600
      [] unit = <<"h", "r">> -> 3600
      [] unit = <<"d">> -> 86400
      [] unit = <<"w">> -> 604800
      [] unit = <<"m", "o">> -> 2592000
      [] unit = <<"y">> -> 31536000
      [] OTHER -> 0

\* DurationPart._UNIT_NORMALIZE.get(unit, unit)
UNIT_NORMALIZE(unit) ==
    CASE unit = <<"h", "r">> -> <<"h">>
      [] unit = <<"m", "i", "n", "u", "t", "e">> -> <<"m", "i", "n">>
      [] unit = <<"m", "i", "n", "u", "t", "e", "s">> -> <<"m", "i", "n">>
      [] unit = <<"h", "o", "u", "r">> -> <<"h">>
      [] unit = <<"h", "o", "u", "r", "s">> -> <<"h">>
      [] unit = <<"d", "a", "y">> -> <<"d">>
      [] unit = <<"d", "a", "y", "s">> -> <<"d">>
      [] unit = <<"w", "e", "e", "k">> -> <<"w">>
      [] unit = <<"w", "e", "e", "k", "s">> -> <<"w">>
      [] unit = <<"m", "o", "n", "t", "h">> -> <<"m", "o">>
      [] unit = <<"m", "o", "n", "t", "h", "s">> -> <<"m", "o">>
      [] unit = <<"y", "e", "a", "r">> -> <<"y">>
      [] unit = <<"y", "e", "a", "r", "s">> -> <<"y">>
      [] OTHER -> unit

\* DurationPart(amount, unit): the amount is kept in tenths, so that one
\* decimal digit is exact; __post_init__ raises ValueError for a unit that
\* is not in the table.
DurationPart(tenths, unit) ==
    LET normal == UNIT_NORMALIZE(unit)
    IN IF UNIT_SECONDS(normal) = 0 THEN Raised("ValueError")
       ELSE [amount |-> tenths, unit |-> normal]

\* DurationPart.__str__: a whole amount is written without a decimal point.
DurationPartStr(part) ==
    IF part.amount % 10 = 0
    THEN ToDigits(part.amount \div 10) \o part.unit
    ELSE ToDigits(part.amount \div 10) \o <<".">> \o ToDigits(part.amount % 10)
         \o part.unit

\* Duration.__str__
RECURSIVE DurationStr(_)

DurationStr(parts) ==
    IF parts = <<>> THEN <<"0", "s">>
    ELSE IF Len(parts) = 1 THEN DurationPartStr(parts[1])
    ELSE DurationPartStr(parts[1]) \o DurationStr(Tail(parts))

\* Duration.total_seconds, in tenths of a second.
RECURSIVE total_seconds(_)

total_seconds(parts) ==
    IF parts = <<>> THEN 0
    ELSE parts[1].amount * UNIT_SECONDS(parts[1].unit) + total_seconds(Tail(parts))

\* re.finditer(r'(\d+\.?\d*)([a-zA-Z]+)', text) of Duration.parse: the
\* parts of the matches, left to right; a part is the exception when its
\* unit is not a unit.
RECURSIVE DurationMatches(_)

DurationMatches(text) ==
    IF text = <<>> THEN <<>>
    ELSE
      LET whole    == Run(text, Range(DigitChars))
          rest1    == From(text, Len(whole) + 1)
          dot      == IF rest1 # <<>> /\ Head(rest1) = "." THEN 1 ELSE 0
          rest2    == From(rest1, dot + 1)
          fraction == Run(rest2, Range(DigitChars))
          rest3    == From(rest2, Len(fraction) + 1)
          unit     == Run(rest3, Letters)
          tenths   == FromDigits(whole) * 10
                      + (IF fraction = <<>> THEN 0 ELSE FromDigits(<<fraction[1]>>))
      IN IF whole # <<>> /\ unit # <<>>
         THEN <<DurationPart(tenths, unit)>>
              \o DurationMatches(From(rest3, Len(unit) + 1))
         ELSE DurationMatches(Tail(text))

\* Duration.parse
DurationParse(text) ==
    LET parts == DurationMatches(text)
    IN IF text = <<>> THEN Raised("ValueError")
       ELSE IF \E i \in DOMAIN parts : IsRaised(parts[i]) THEN Raised("ValueError")
       ELSE IF parts = <<>> THEN Raised("ValueError")
       ELSE [parts |-> parts]

Quote == "\""

Backslash == "\\"

\* json.dumps of a string of the characters the titles here are made of:
\* a quote and a backslash are escaped by a backslash.
RECURSIVE JsonEscape(_)

JsonEscape(text) ==
    IF text = <<>> THEN <<>>
    ELSE IF Head(text) \in {Quote, Backslash}
         THEN <<Backslash, Head(text)>> \o JsonEscape(Tail(text))
         ELSE <<Head(text)>> \o JsonEscape(Tail(text))

json_dumps(text) == <<Quote>> \o JsonEscape(text) \o <<Quote>>

\* The scan of json.loads inside a string literal, from position i on: the
\* string ends at the first quote that is not escaped, and text after it is
\* an error ("Extra data"); of the escapes, the two json.dumps writes above.
RECURSIVE JsonScan(_, _, _)

JsonScan(text, i, decoded) ==
    IF i > Len(text) THEN Raised("JSONDecodeError")
    ELSE IF text[i] = Quote
         THEN IF i = Len(text) THEN [value |-> decoded] ELSE Raised("JSONDecodeError")
    ELSE IF text[i] = Backslash
         THEN IF i + 1 <= Len(text) /\ text[i + 1] \in {Quote, Backslash}
              THEN JsonScan(text, i + 2, Append(decoded, text[i + 1]))
              ELSE Raised("JSONDecodeError")
    ELSE JsonScan(text, i + 1, Append(decoded, text[i]))

\* json.loads of a text that is to hold one string literal.
json_loads(text) ==
    IF text = <<>> \/ Head(text) # Quote THEN Raised("JSONDecodeError")
    ELSE JsonScan(text, 2, <<>>)

\* An item without a time constraint: time_constraint is None.
NoConstraint == [kind |-> "None"]

\* GianttItem.to_string: the time constraint is not written.
to_string(item) ==
    LET charts_str == <<"{", Quote>> \o Join(item.charts, <<Quote, ",", Quote>>)
                      \o <<Quote, "}">>
        tags_str == IF item.tags # <<>> THEN <<" ">> \o Join(item.tags, <<",">>)
                    ELSE <<>>
        HasTargets(rel) == rel.targets # <<>>
        stored == SelectSeq(item.relations, HasTargets)
        rel_parts == [i \in 1..Len(stored) |->
                         <<RelationGlyph[stored[i].rel_type], "[">>
                         \o Join(stored[i].targets, <<",">>) \o <<"]">>]
        relations_str == IF rel_parts # <<>>
                         THEN <<" ", ">", ">", ">", " ">> \o Join(rel_parts, <<" ">>)
                         ELSE <<>>
        title_str == json_dumps(item.title)
        user_comment_str == IF item.user_comment # <<>>
                            THEN <<" ", "#", " ">> \o item.user_comment ELSE <<>>
        auto_comment_str == IF item.auto_comment # <<>>
                            THEN <<" ", "#", "#", "#", " ">> \o item.auto_comment
                            ELSE <<>>
    IN <<Status[item.status], " ">> \o item.id \o Priority[item.priority] \o <<" ">>
       \o DurationStr(item.duration) \o <<" ">> \o title_str \o <<" ">>
       \o charts_str \o tags_str \o relations_str
       \o user_comment_str \o auto_comment_str

\* The longest prefix of text that has no character of stop.
RECURSIVE RunNot(_, _)

RunNot(text, stop) ==
    IF text # <<>> /\ Head(text) \notin stop
    THEN <<Head(text)>> \o RunNot(Tail(text), stop)
    ELSE <<>>

\* parse_pre_title_section of parser.py, the function from_string calls:
\* ^([glyph])\s+([^\s]+)\s+([^\s"]+)
parse_pre_title_section(pre_title) ==
    LET after_status == IF pre_title = <<>> THEN <<>> ELSE Tail(pre_title)
        space1       == Run(after_status, Whitespace)
        from_id      == From(after_status, Len(space1) + 1)
        id_priority  == RunNot(from_id, Whitespace)
        after_id     == From(from_id, Len(id_priority) + 1)
        space2       == Run(after_id, Whitespace)
        from_dur     == From(after_id, Len(space2) + 1)
        duration     == RunNot(from_dur, Whitespace \cup {Quote})
    IN IF /\ pre_title # <<>>
          /\ Head(pre_title) \in Range(Status)
          /\ space1 # <<>>
          /\ id_priority # <<>>
          /\ space2 # <<>>
          /\ duration # <<>>
       THEN [status |-> Head(pre_title), id_priority |-> id_priority,
             duration |-> Strip(duration)]
       ELSE Raised("ValueError")

\* The loop of from_string that looks for the closing quote of the title:
\* a quote that follows a backslash is passed over; 0 stands for -1.
RECURSIVE title_end_from(_, _)

title_end_from(line, title_end) ==
    IF title_end # 0 /\ line[title_end - 1] = Backslash
    THEN title_end_from(line, Find(line, <<Quote>>, title_end + 1))
    ELSE title_end

\* priority_symbols of from_string, in its order.
priority_symbols ==
    <<Priority.CRITICAL, Priority.HIGH, Priority.MEDIUM, Priority.UNSURE,
      Priority.LOW, Priority.LOWEST>>

\* The first symbol of priority_symbols the token ends with, or the empty
\* string.
RECURSIVE FirstSuffix(_, _)

FirstSuffix(token, symbols) ==
    IF symbols = <<>> THEN <<>>
    ELSE IF EndsWith(token, Head(symbols)) THEN Head(symbols)
    ELSE FirstSuffix(token, Tail(symbols))

\* rel_symbols of from_string, in its order.
rel_symbols ==
    <<"REQUIRES", "UNLOCKS", "SUPERCHARGES", "INDICATES", "BEFORE", "WITH", "CONFLICTS">>

\* re.findall(glyph\[([^]]+)\], text): the groups of the matches, of which
\* from_string uses the first.
RECURSIVE findall(_, _)

findall(glyph, text) ==
    LET start == Find(text, <<glyph, "[">>, 1)
        inner == RunNot(From(text, start + 2), {"]"})
        close == start + 2 + Len(inner)
    IN IF start = 0 THEN <<>>
       ELSE IF inner # <<>> /\ close <= Len(text)
            THEN <<inner>> \o findall(glyph, From(text, close + 1))
            ELSE findall(glyph, From(text, start + 1))

\* [x.strip() for x in text.split(",")]
SplitStripped(text) ==
    LET pieces == Split(text, <<",">>)
    IN [i \in 1..Len(pieces) |-> Strip(pieces[i])]

\* [x for x in texts if x]
NonEmpty(texts) ==
    LET Filled(text) == text # <<>>
    IN SelectSeq(texts, Filled)

\* GianttItem.from_string: the item of a line, or the exception it raises.
from_string(text) ==
    LET line         == Strip(text)
        title_start  == Find(line, <<Quote>>, 1)
        pre_title    == Strip(IF title_start = 0
                              THEN SubSeq(line, 1, Len(line) - 1)
                              ELSE SubSeq(line, 1, title_start - 1))
        pre          == parse_pre_title_section(pre_title)
        title_end    == IF title_start = 0 THEN 0
                        ELSE title_end_from(line, Find(line, <<Quote>>, title_start + 1))
        title        == json_loads(SubSeq(line, title_start, title_end))
        post_title   == Strip(From(line, title_end + 1))
        priority     == FirstSuffix(pre.id_priority, priority_symbols)
        id_str       == SubSeq(pre.id_priority, 1, Len(pre.id_priority) - Len(priority))
        duration     == DurationParse(pre.duration)
        \* charts_pattern: ^\s*(\{[^}]+\})\s*(.*)$
        block_start  == LStrip(post_title, Whitespace)
        block_inner  == IF block_start = <<>> THEN <<>>
                        ELSE RunNot(Tail(block_start), {"}"})
        block_closed == /\ block_start # <<>>
                        /\ Head(block_start) = "{"
                        /\ block_inner # <<>>
                        /\ Len(block_inner) + 2 <= Len(block_start)
        remainder    == LStrip(From(block_start, Len(block_inner) + 3), Whitespace)
        parts        == Split(remainder, <<">", ">", ">">>)
        tags_str     == Strip(parts[1])
        relations_0  == IF Len(parts) > 1 THEN Strip(parts[2]) ELSE <<>>
        constraint_parts == Split(relations_0, <<"@", "@", "@">>)
        relations_str == Strip(constraint_parts[1])
        time_constraint == IF Len(constraint_parts) > 1
                           THEN [kind |-> "str", text |-> Strip(constraint_parts[2])]
                           ELSE NoConstraint
        chart_pieces == NonEmpty(SplitStripped(block_inner))
        charts       == [i \in 1..Len(chart_pieces) |->
                            StripChars(chart_pieces[i], {Quote})]
        tags         == NonEmpty(SplitStripped(tags_str))
        Matched(rel_type) == findall(RelationGlyph[rel_type], relations_str) # <<>>
        found        == SelectSeq(rel_symbols, Matched)
        relations    == [i \in 1..Len(found) |->
                            [rel_type |-> found[i],
                             targets  |-> SplitStripped(
                                 findall(RelationGlyph[found[i]], relations_str)[1])]]
    IN IF IsRaised(pre) THEN pre
       ELSE IF title_end = 0 THEN Raised("ValueError")
       ELSE IF IsRaised(title) THEN title
       ELSE IF IsRaised(duration) THEN duration
       ELSE IF ~block_closed THEN Raised("ValueError")
       ELSE [id |-> id_str,
             title |-> title.value,
             status |-> MemberOf(Status, pre.status),
             priority |-> MemberOf(Priority, priority),
             duration |-> duration.parts,
             charts |-> charts,
             tags |-> tags,
             relations |-> relations,
             time_constraint |-> time_constraint,
             user_comment |-> <<>>,
             auto_comment |-> <<>>]

\* The sequences of at most n copies of x.
Repeats(x, n) == {[i \in 1..k |-> x] : k \in 0..n}

\* The values the codec is given: ids without a quote, a blank, ">>>" or
\* "@@@"; titles of any characters; non-empty durations; relation types
\* with non-empty target lists.
CodecIds == {<<"a">>, <<"a", "!">>}

CodecTitles == {<<>>, <<"T">>, <<Quote>>, <<Backslash>>}

CodecDurations ==
    {<<[amount |-> 10, unit |-> <<"d">>]>>,
     <<[amount |-> 15, unit |-> <<"h">>], [amount |-> 20, unit |-> <<"d">>]>>}

CodecCharts == Repeats(<<"F">>, MaxCharts)

CodecTags == {<<>>, <<<<"x">>>>}

CodecRelations ==
    {<<>>,
     <<[rel_type |-> "REQUIRES", targets |-> <<<<"b">>>>]>>,
     <<[rel_type |-> "WITH", targets |-> <<<<"b">>>>],
       [rel_type |-> "REQUIRES", targets |-> <<<<"b">>, <<"c">>>>]>>}

\* window(5d,warn) of TimeConstraint.
CodecConstraints ==
    {NoConstraint,
     [kind |-> "TimeConstraint", type |-> "WINDOW",
      duration |-> <<[amount |-> 50, unit |-> <<"d">>]>>,
      consequence_type |-> "WARNING"]}

\* No comment, a user comment, an auto comment.
CodecComments ==
    {[user_comment |-> <<>>, auto_comment |-> <<>>],
     [user_comment |-> <<"h">>, auto_comment |-> <<>>],
     [user_comment |-> <<>>, auto_comment |-> <<"h">>]}

CodecItems ==
    {[id |-> id, title |-> title, status |-> status, priority |-> priority,
      duration |-> duration, charts |-> charts, tags |-> tags,
      relations |-> relations, time_constraint |-> time_constraint,
      user_comment |-> comments.user_comment,
      auto_comment |-> comments.auto_comment] :
        id \in CodecIds, title \in CodecTitles, status \in DOMAIN Status,
        priority \in DOMAIN Priority, duration \in CodecDurations,
        charts \in CodecCharts, tags \in CodecTags, relations \in CodecRelations,
        time_constraint \in CodecConstraints, comments \in CodecComments}

\* An item has been constructed; nothing has been done with it yet.
InitCodec ==
    /\ items = [i \in {} |-> GianttItem(i, <<>>, <<>>, NoRelations)]
    /\ issues = <<>>
    /\ fixed_issues = <<>>
    /\ call \in {[name |-> "GianttItem", item |-> item] : item \in CodecItems}
    /\ ret = NoRet

\* item.to_string()
Encode ==
    /\ call.name = "GianttItem"
    /\ call' = [name |-> "to_string", item |-> call.item]
    /\ ret' = [raised |-> "none", value |-> to_string(call.item)]
    /\ UNCHANGED <<items, issues, fixed_issues>>

\* GianttItem.from_string(line) of the line to_string returned.
Decode ==
    /\ call.name = "to_string"
    /\ call' = [name |-> "from_string", line |-> ret.value, item |-> call.item]
    /\ ret' = LET decoded == from_string(ret.value)
              IN IF IsRaised(decoded) THEN decoded
                 ELSE [raised |-> "none", value |-> decoded]
    /\ UNCHANGED <<items, issues, fixed_issues>>

\* A relation dict as a mapping from the relation type to its targets.
AsMap(relations) ==
    [rel_type \in {relations[i].rel_type : i \in DOMAIN relations} |->
        relations[CHOOSE i \in DOMAIN relations :
                      relations[i].rel_type = rel_type].targets]

\* The decoded item reproduces the encoded one.
Equivalent(decoded, item) ==
    /\ decoded.id = item.id
    /\ decoded.status = item.status
    /\ decoded.priority = item.priority
    /\ total_seconds(decoded.duration) = total_seconds(item.duration)
    /\ decoded.title = item.title
    /\ decoded.charts = item.charts
    /\ decoded.tags = item.tags
    /\ AsMap(decoded.relations) = AsMap(item.relations)
    /\ decoded.time_constraint = item.time_constraint

\* C20: for every work item of valid values, decoding the encoded line gives
\* an equivalent item: same id, status, priority, duration in seconds, title,
\* chart set (the empty one too), tag sequence, relation map and time
\* constraint.
C20_RoundTrip ==
    call.name = "from_string" =>
        /\ ret.raised = "none"
        /\ Equivalent(ret.value, call.item)

\* ---------------------------------------------------------------------------
\* The id+priority token: GianttParser._parse_id_priority of parser.py and the
\* lines of GianttItem.from_string that do the same.
\* ---------------------------------------------------------------------------

\* The longest id the token decoders are given.
MaxId == 2

\* The members of Priority in the order the enum defines them.
PriorityMembers ==
    <<"LOWEST", "LOW", "NEUTRAL", "UNSURE", "MEDIUM", "HIGH", "CRITICAL">>

\* sorted(members, key=len(value), reverse=True): the sort is stable, so
\* members of one length keep the order of the enum.
RECURSIVE ByLengthFrom(_, _)

ByLengthFrom(members, length) ==
    LET HasLength(m) == Len(Priority[m]) = length
    IN IF length < 0 THEN <<>>
       ELSE SelectSeq(members, HasLength) \o ByLengthFrom(members, length - 1)

priorities ==
    LET longest == CHOOSE n \in {Len(Priority[m]) : m \in DOMAIN Priority} :
                       \A m \in DOMAIN Priority : Len(Priority[m]) <= n
    IN ByLengthFrom(PriorityMembers, longest)

\* text[:-n] of Python: text[:-0] is text[:0], the empty string.
SliceToMinus(text, n) ==
    IF n = 0 THEN <<>> ELSE SubSeq(text, 1, Len(text) - n)

\* The loop of _parse_id_priority over the members still to try.
RECURSIVE parse_id_priority_from(_, _)

parse_id_priority_from(id_priority, members) ==
    IF members = <<>> THEN [id |-> id_priority, priority |-> "NEUTRAL"]
    ELSE IF EndsWith(id_priority, Priority[Head(members)])
         THEN [id |-> SliceToMinus(id_priority, Len(Priority[Head(members)])),
               priority |-> Head(members)]
    ELSE parse_id_priority_from(id_priority, Tail(members))

\* GianttParser._parse_id_priority
parse_id_priority(id_priority) == parse_id_priority_from(id_priority, priorities)

\* Lines 153-163 of GianttItem.from_string.
from_string_id_priority(id_priority_str) ==
    LET priority == FirstSuffix(id_priority_str, priority_symbols)
        id_str   == IF priority = <<>> THEN id_priority_str
                    ELSE SliceToMinus(id_priority_str, Len(priority))
    IN [id |-> id_str, priority |-> MemberOf(Priority, priority)]

\* The characters of the ids the token decoders are given.
IdChars == {"a", "!", ".", "?", ","}

RECURSIVE TextsOver(_, _)

\* The texts of exactly n characters of chars.
TextsOver(chars, n) ==
    IF n = 0 THEN {<<>>}
    ELSE {Append(text, c) : text \in TextsOver(chars, n - 1), c \in chars}

TokenIds == UNION {TextsOver(IdChars, n) : n \in 1..MaxId}

\* An id and a priority have been chosen; the token is the id followed by
\* the priority's symbol.
InitIdPriority ==
    /\ items = [i \in {} |-> GianttItem(i, <<>>, <<>>, NoRelations)]
    /\ issues = <<>>
    /\ fixed_issues = <<>>
    /\ call \in {[name |-> "token", id |-> id, priority |-> priority,
                  token |-> id \o Priority[priority]] :
                     id \in TokenIds, priority \in DOMAIN Priority}
    /\ ret = NoRet

\* GianttParser()._parse_id_priority(token)
ParseIdPriority ==
    /\ call.name = "token"
    /\ call' = [call EXCEPT !.name = "_parse_id_priority"]
    /\ ret' = [raised |-> "none", value |-> parse_id_priority(call.token)]
    /\ UNCHANGED <<items, issues, fixed_issues>>

\* The same token read by GianttItem.from_string.
FromStringIdPriority ==
    /\ call.name = "token"
    /\ call' = [call EXCEPT !.name = "from_string"]
    /\ ret' = [raised |-> "none", value |-> from_string_id_priority(call.token)]
    /\ UNCHANGED <<items, issues, fixed_issues>>

\* The id ends in the symbol of a priority.
EndsInSymbol(id) ==
    \E p \in DOMAIN Priority : Priority[p] # <<>> /\ EndsWith(id, Priority[p])

TokenDecoded == call.name \in {"_parse_id_priority", "from_string"} /\ "token" \in DOMAIN call

\* C21: for every bare id that does not end in a priority symbol and every
\* priority p, decoding the id followed by p's symbol returns exactly
\* (id, p): a token without a suffix gives the whole token and NEUTRAL, a
\* token ending in "!!!" gives CRITICAL.
C21_TokenDecodesToIdAndPriority ==
    (TokenDecoded /\ ~EndsInSymbol(call.id)) =>
        ret.value = [id |-> call.id, priority |-> call.priority]

\* ---------------------------------------------------------------------------
\* The order in which to_string writes the relation types of an item.
\* ---------------------------------------------------------------------------

\* The most relation types of an item whose encoding is compared.
MaxRelations == 2

\* The relation types and target lists of the items compared.
OrderedTypes == {"REQUIRES", "UNLOCKS", "WITH"}

OrderedTargets == {<<<<"b">>>>, <<<<"b">>, <<"c">>>>}

RECURSIVE RelationDicts(_)

\* The dicts of exactly n relation types, as the sequence of their entries
\* in insertion order.
RelationDicts(n) ==
    IF n = 0 THEN {<<>>}
    ELSE {Append(dict, [rel_type |-> rel_type, targets |-> targets]) :
             dict \in RelationDicts(n - 1),
             rel_type \in OrderedTypes, targets \in OrderedTargets}

\* No relation type is entered twice in a dict.
DistinctTypes(dict) ==
    \A i \in DOMAIN dict : \A j \in DOMAIN dict :
        dict[i].rel_type = dict[j].rel_type => i = j

OrderedRelations ==
    {dict \in UNION {RelationDicts(n) : n \in 0..MaxRelations} : DistinctTypes(dict)}

\* An item that has the given relations and is plain otherwise.
WithRelations(relations) ==
    [id |-> <<"a">>, title |-> <<"T">>, status |-> "NOT_STARTED",
     priority |-> "NEUTRAL", duration |-> <<[amount |-> 10, unit |-> <<"d">>]>>,
     charts |-> <<<<"F">>>>, tags |-> <<>>, relations |-> relations,
     time_constraint |-> NoConstraint, user_comment |-> <<>>, auto_comment |-> <<>>]

\* Two items have been constructed.
InitTwoItems ==
    /\ items = [i \in {} |-> GianttItem(i, <<>>, <<>>, NoRelations)]
    /\ issues = <<>>
    /\ fixed_issues = <<>>
    /\ call \in {[name |-> "GianttItem", first |-> WithRelations(r1),
                  second |-> WithRelations(r2)] :
                     r1 \in OrderedRelations, r2 \in OrderedRelations}
    /\ ret = NoRet

\* first.to_string() and second.to_string()
EncodeBoth ==
    /\ call.name = "GianttItem"
    /\ "first" \in DOMAIN call
    /\ call' = [call EXCEPT !.name = "to_string"]
    /\ ret' = [raised |-> "none",
               value |-> <<to_string(call.first), to_string(call.second)>>]
    /\ UNCHANGED <<items, issues, fixed_issues>>

BothEncoded == call.name = "to_string" /\ "first" \in DOMAIN call

\* C22: two items with the same relation map, whatever the order in which
\* their relation types were inserted, are encoded to the same line.
C22_EncodingIgnoresInsertionOrder ==
    (BothEncoded /\ AsMap(call.first.relations) = AsMap(call.second.relations)) =>
        ret.value[1] = ret.value[2]

\* ---------------------------------------------------------------------------
\* Duration.__add__ of duration.py.
\* ---------------------------------------------------------------------------

\* The largest whole amount of the durations that are added.
MaxAmount == 2

\* The names an instance of Duration has: the instance attribute of
\* __init__ and the names defined in the class body.
DurationAttributes ==
    {"parts", "parse", "total_seconds", "__init__", "__str__", "__add__",
     "__eq__", "__lt__", "__gt__", "__le__", "__ge__"}

\* The names the class body of DurationPart defines.
DurationPartAttributes ==
    {"amount", "unit", "_UNIT_SECONDS", "_UNIT_NORMALIZE", "__post_init__",
     "total_seconds", "__str__"}

\* sorted(_UNIT_SECONDS.items(), key=seconds, reverse=True): the units of the
\* table from the longest to the shortest, "h" before "hr" as in the table.
UnitsBySeconds ==
    <<<<"y">>, <<"m", "o">>, <<"w">>, <<"d">>, <<"h">>, <<"h", "r">>,
      <<"m", "i", "n">>, <<"s">>>>

\* The loop of __add__ over the units still to try; total is in tenths of a
\* second, and the amount of the result is the fraction total / seconds.
RECURSIVE add_from(_, _)

add_from(total, units) ==
    IF units = <<>>
    THEN [parts |-> <<[amount |-> [num |-> total, den |-> 10], unit |-> <<"s">>]>>]
    ELSE IF total >= UNIT_SECONDS(Head(units)) * 10
         THEN [parts |-> <<[amount |-> [num |-> total,
                                        den |-> UNIT_SECONDS(Head(units)) * 10],
                            unit |-> UNIT_NORMALIZE(Head(units))]>>]
    ELSE add_from(total, Tail(units))

\* Duration.__add__: self._UNIT_SECONDS is looked up on the Duration.
Duration__add__(self, other) ==
    LET sum == total_seconds(self) + total_seconds(other)
    IN IF "_UNIT_SECONDS" \notin DurationAttributes THEN Raised("AttributeError")
       ELSE add_from(sum, UnitsBySeconds)

\* The units and the durations that are added.
AddedUnits == {<<"s">>, <<"m", "i", "n">>, <<"h">>, <<"d">>}

AddedDurations ==
    {<<[amount |-> amount, unit |-> unit]>> :
        amount \in {5} \cup {10 * k : k \in 1..MaxAmount}, unit \in AddedUnits}

\* Two durations have been constructed.
InitTwoDurations ==
    /\ items = [i \in {} |-> GianttItem(i, <<>>, <<>>, NoRelations)]
    /\ issues = <<>>
    /\ fixed_issues = <<>>
    /\ call \in {[name |-> "Duration", self |-> self, other |-> other] :
                     self \in AddedDurations, other \in AddedDurations}
    /\ ret = NoRet

\* self + other
Add ==
    /\ call.name = "Duration"
    /\ call' = [call EXCEPT !.name = "__add__"]
    /\ ret' = LET sum == Duration__add__(call.self, call.other)
              IN IF IsRaised(sum) THEN sum
                 ELSE [raised |-> "none", value |-> sum.parts]
    /\ UNCHANGED <<items, issues, fixed_issues>>

\* The unit is the longest one of the table that is not longer than the
\* given time, or seconds when the time is below one second.
LargestUnitWithin(unit, total) ==
    IF \A u \in Range(UnitsBySeconds) : UNIT_SECONDS(u) * 10 > total
    THEN unit = <<"s">>
    ELSE /\ UNIT_SECONDS(unit) * 10 <= total
         /\ \A u \in Range(UnitsBySeconds) :
               UNIT_SECONDS(u) * 10 <= total => UNIT_SECONDS(u) <= UNIT_SECONDS(unit)

\* C23: adding two durations succeeds and gives one (amount, unit) pair whose
\* total seconds are the sum of the operands' total seconds and whose unit
\* is the largest unit that does not exceed the sum.
C23_AddGivesSumInLargestUnit ==
    call.name = "__add__" =>
        LET sum == total_seconds(call.self) + total_seconds(call.other)
        IN /\ ret.raised = "none"
           /\ Len(ret.value) = 1
           /\ ret.value[1].amount.num * UNIT_SECONDS(ret.value[1].unit) * 10
                 = sum * ret.value[1].amount.den
           /\ LargestUnitWithin(ret.value[1].unit, sum)

\* ---------------------------------------------------------------------------
\* safe_topological_sort step by step: one step per iteration of the while
\* loop and per call, loop iteration and return of dfs.  The locals of the
\* running call are the fields of the call record.
\* ---------------------------------------------------------------------------

\* Loading for the step-by-step sort: items with REQUIRES lists, the only
\* relation the sort reads.
RequiresAddItem ==
    /\ Loading
    /\ \E id \in Ids \ DOMAIN items :
         LET room == MaxTargets - GraphTargets(items, DOMAIN items, RelationType)
         IN \E requires \in RelMaps({"REQUIRES"}, room) :
               items' = add_item(items, GianttItem(id, <<>>, <<>>, requires))
    /\ call' = [name |-> "add_item"]
    /\ ret' = NoRet
    /\ UNCHANGED <<issues, fixed_issues>>

\* A call of safe_topological_sort is running.
SortRunning == call.name = "safe_topological_sort" /\ "pc" \in DOMAIN call

\* The call has returned or raised.
SortEnded == SortRunning /\ call.pc = "done"

\* The entry of safe_topological_sort up to the while loop: adj_list,
\* in_degree and the queue of the nodes of in-degree 0 in the dict's order.
SortBegin ==
    /\ Loading
    /\ \E queue \in Perms({n \in DOMAIN items : in_degree(adj_list(items))[n] = 0}) :
          call' = [name |-> "safe_topological_sort", pc |-> "while",
                   adj_list |-> adj_list(items),
                   in_degree |-> in_degree(adj_list(items)),
                   queue |-> queue, sorted_items |-> <<>>,
                   stack |-> <<>>, frames |-> <<>>, current |-> "", returned |-> None]
    /\ ret' = NoRet
    /\ UNCHANGED <<items, issues, fixed_issues>>

\* One iteration of "while queue": the head is popped and appended to
\* sorted_items, the in-degree of its neighbours is lowered and those that
\* reach 0 are appended to the queue, in the set's order.
WhileStep ==
    /\ SortRunning /\ call.pc = "while" /\ call.queue # <<>>
    /\ LET node == Head(call.queue)
           lowered == [n \in DOMAIN call.in_degree |->
                          IF n \in call.adj_list[node] THEN call.in_degree[n] - 1
                          ELSE call.in_degree[n]]
           freed == {n \in call.adj_list[node] : lowered[n] = 0}
       IN \E appended \in Perms(freed) :
             call' = [call EXCEPT !.queue = Tail(call.queue) \o appended,
                                  !.in_degree = lowered,
                                  !.sorted_items = Append(call.sorted_items, node)]
    /\ UNCHANGED <<items, issues, fixed_issues, ret>>

\* The queue is empty: either every item was popped and the reversed list is
\* returned, or find_cycle starts dfs from any unvisited node.
WhileExit ==
    /\ SortRunning /\ call.pc = "while" /\ call.queue = <<>>
    /\ IF Len(call.sorted_items) = Cardinality(DOMAIN items)
       THEN /\ call' = [call EXCEPT !.pc = "done"]
            /\ ret' = [raised |-> "none", value |-> Reverse(call.sorted_items)]
       ELSE /\ \E start_node \in (DOMAIN items) \ Range(call.sorted_items) :
                  call' = [call EXCEPT !.pc = "call", !.current = start_node]
            /\ UNCHANGED ret
    /\ UNCHANGED <<items, issues, fixed_issues>>

\* The entry of dfs(current): a node on the stack ends the search with the
\* slice of the stack, a node popped by the while loop returns None, any
\* other node is pushed and its neighbours are iterated in the set's order.
DfsCall ==
    /\ SortRunning /\ call.pc = "call"
    /\ IF call.current \in Range(call.stack)
       THEN call' = [call EXCEPT !.pc = "return",
                        !.returned = SubSeq(call.stack, IndexOf(call.stack, call.current),
                                            Len(call.stack))]
       ELSE IF call.current \in Range(call.sorted_items)
       THEN call' = [call EXCEPT !.pc = "return", !.returned = None]
       ELSE \E order \in Perms(call.adj_list[call.current]) :
               call' = [call EXCEPT !.pc = "for",
                           !.stack = Append(call.stack, call.current),
                           !.frames = Append(call.frames, order)]
    /\ UNCHANGED <<items, issues, fixed_issues, ret>>

\* The for loop going on without the neighbour it has just handled.
Advance_Stuck(neighbors) == neighbors

\* The for loop going on to its next neighbour.
Advance(neighbors) == Tail(neighbors)

\* "for neighbor in adj_list[current]" of the innermost dfs: the next
\* neighbour is searched; after the last one the node is popped off the
\* stack and dfs returns None.
DfsFor ==
    /\ SortRunning /\ call.pc = "for"
    /\ LET neighbors == call.frames[Len(call.frames)]
           outer == SubSeq(call.frames, 1, Len(call.frames) - 1)
       IN IF neighbors = <<>>
          THEN call' = [call EXCEPT !.pc = "return", !.returned = None,
                           !.stack = SubSeq(call.stack, 1, Len(call.stack) - 1),
                           !.frames = outer]
          ELSE call' = [call EXCEPT !.pc = "call", !.current = Head(neighbors),
                           !.frames = Append(outer, Advance(neighbors))]
    /\ UNCHANGED <<items, issues, fixed_issues, ret>>

\* dfs has returned: to the for loop of its caller, which returns a cycle
\* at once and goes on after None, or to find_cycle, which closes the cycle
\* and lets safe_topological_sort raise.
DfsReturn ==
    /\ SortRunning /\ call.pc = "return"
    /\ IF call.frames = <<>>
       THEN /\ call' = [call EXCEPT !.pc = "done"]
            /\ ret' = [raised |-> "CycleDetectedException",
                       cycle_items |-> IF call.returned # None
                                       THEN Append(call.returned, call.returned[1])
                                       ELSE <<>>]
       ELSE /\ IF call.returned # None
               THEN call' = [call EXCEPT
                                !.frames = SubSeq(call.frames, 1, Len(call.frames) - 1)]
               ELSE call' = [call EXCEPT !.pc = "for"]
            /\ UNCHANGED ret
    /\ UNCHANGED <<items, issues, fixed_issues>>

\* A step of the running call.
SortStep == WhileStep \/ WhileExit \/ DfsCall \/ DfsFor \/ DfsReturn

\* C24: safe_topological_sort, its cycle search included, terminates on
\* every finite graph: a call that has started always ends, by returning an
\* order or by raising CycleDetectedException.
C24_SortTerminates ==
    [](SortRunning =>
          <>(SortEnded /\ ret.raised \in {"none", "CycleDetectedException"}))

\* The call has ended after a cycle search on a graph where an item requires
\* itself and lies on a second cycle with another item.
C24_Witness ==
    /\ SortEnded
    /\ ret.raised = "CycleDetectedException"
    /\ \E n \in DOMAIN items : \E m \in (DOMAIN items) \ {n} :
          /\ n \in call.adj_list[n]
          /\ m \in call.adj_list[n]
          /\ n \in call.adj_list[m]

\* The call has ended by returning an order of a graph with a dangling
\* target.
C24_WitnessReturned ==
    /\ SortEnded
    /\ ret.raised = "none"
    /\ Len(ret.value) > 1
    /\ \E n \in DOMAIN items :
          Range(Get(items[n].relations, "REQUIRES")) \ DOMAIN items # {}

\* ---------------------------------------------------------------------------
\* load_graph_from_file of giantt_cli, the loader the include tests call.  The
\* module is not among the sources: the loader is modelled from what
\* tests/test_includes.py says of it, as a recursive load that remembers the
\* files it has loaded.
\* ---------------------------------------------------------------------------

\* The most #include lines of one file.
MaxIncludes == 1

\* The files that exist, and the one item each of them holds.
Files == {"file1.txt", "file2.txt", "file3.txt"}

ItemOfFile ==
    [file \in Files |->
        CASE file = "file1.txt" -> "a"
          [] file = "file2.txt" -> "b"
          [] file = "file3.txt" -> "c"]

\* The names an #include line can give: a file that exists or one that
\* does not.
FileNames == Files \cup {"missing_file.txt"}

\* parse_include_directives of every file: the names of its #include lines,
\* in the order of the lines.
IncludeLists == UNION {[1..n -> FileNames] : n \in 0..MaxIncludes}

\* The file the load starts from.
MainFile == "file1.txt"

\* The files have been written.
InitFiles ==
    /\ items = [i \in {} |-> GianttItem(i, <<>>, <<>>, NoRelations)]
    /\ issues = <<>>
    /\ fixed_issues = <<>>
    /\ call \in {[name |-> "files", includes |-> includes] :
                     includes \in [Files -> IncludeLists]}
    /\ ret = NoRet

\* A call of load_graph_from_file is running.
LoadRunning == call.name = "load_graph_from_file"

\* The call has returned.
LoadEnded == LoadRunning /\ call.pc = "done"

\* load_graph_from_file(MainFile) is called.
LoadBegin ==
    /\ call.name = "files"
    /\ call' = [name |-> "load_graph_from_file", includes |-> call.includes,
                pc |-> "call", filename |-> MainFile, loaded_files |-> {},
                frames |-> <<>>, added |-> <<>>]
    /\ UNCHANGED <<items, issues, fixed_issues, ret>>

\* An #include line the loader does not follow at all.
Followed_Never(filename, loaded_files) == FALSE

\* An #include line is followed when its file exists and has not been
\* loaded during this load.
Followed(filename, loaded_files) ==
    filename \in Files /\ filename \notin loaded_files

\* The entry of the load of one file: a file that is missing or was loaded
\* already is passed over; any other file is remembered and its #include
\* lines are gone through.
LoadCall ==
    /\ LoadRunning /\ call.pc = "call"
    /\ IF Followed(call.filename, call.loaded_files)
       THEN call' = [call EXCEPT
                        !.pc = "for",
                        !.loaded_files = call.loaded_files \cup {call.filename},
                        !.frames = Append(call.frames,
                                          [filename |-> call.filename,
                                           includes |-> call.includes[call.filename]])]
       ELSE call' = [call EXCEPT !.pc = "return"]
    /\ UNCHANGED <<items, issues, fixed_issues, ret>>

\* The loop over the #include lines of the innermost file: the next one is
\* loaded; after the last one the file's own items are added to the graph.
LoadFor ==
    /\ LoadRunning /\ call.pc = "for"
    /\ LET frame == call.frames[Len(call.frames)]
           outer == SubSeq(call.frames, 1, Len(call.frames) - 1)
           item  == GianttItem(ItemOfFile[frame.filename], <<>>, <<>>, NoRelations)
       IN IF frame.includes = <<>>
          THEN /\ call' = [call EXCEPT !.pc = "return", !.frames = outer,
                              !.added = Append(call.added, item.id)]
               /\ items' = add_item(items, item)
          ELSE /\ call' = [call EXCEPT
                              !.pc = "call", !.filename = Head(frame.includes),
                              !.frames = Append(outer,
                                  [frame EXCEPT !.includes = Tail(frame.includes)])]
               /\ UNCHANGED items
    /\ UNCHANGED <<issues, fixed_issues, ret>>

\* The load of one file has returned: to the loop of the file that includes
\* it, or to the caller of load_graph_from_file with the graph.
LoadReturn ==
    /\ LoadRunning /\ call.pc = "return"
    /\ IF call.frames = <<>>
       THEN /\ call' = [call EXCEPT !.pc = "done"]
            /\ ret' = [raised |-> "none", value |-> items]
       ELSE /\ call' = [call EXCEPT !.pc = "for"]
            /\ UNCHANGED ret
    /\ UNCHANGED <<items, issues, fixed_issues>>

\* A step of the running load.
LoadStep == LoadCall \/ LoadFor \/ LoadReturn

RECURSIVE IncludedFrom(_, _)

\* The existing files reached from the given ones along #include lines.
IncludedFrom(includes, files) ==
    LET more == files \cup {f \in Files : \E g \in files : f \in Range(includes[g])}
    IN IF more = files THEN files ELSE IncludedFrom(includes, more)

\* The graph the load returned holds the items of the main file and of
\* every file it includes, directly or not, and each was added once.
LoadedEveryFileOnce ==
    /\ LoadEnded
    /\ ret.raised = "none"
    /\ DOMAIN ret.value = {ItemOfFile[f] : f \in IncludedFrom(call.includes, {MainFile})}
    /\ \A i \in DOMAIN call.added : \A j \in DOMAIN call.added :
          call.added[i] = call.added[j] => i = j

NoEmptyList(g) ==
    \A n \in DOMAIN g : \A rel_type \in DOMAIN g[n].relations :
        g[n].relations[rel_type] # <<>>

\* C26: a relation type with an empty target list is never stored: the
\* loaded graph has none, and none appears by insert_between or by a fix
\* pass of the doctor; a fix that removes the last target of a relation
\* removes the relation type from the item.
C26_NoEmptyRelationStored == NoEmptyList(items)

\* A fix pass has removed the last target of a relation of an item, and the
\* item no longer has the relation type.
C26_Witness ==
    /\ call.name = "fix_issues"
    /\ \E n \in DOMAIN items : \E rel_type \in DOMAIN call.graph[n].relations :
          rel_type \notin DOMAIN items[n].relations

\* C27: for each of the 7 relation types R, when item X lists an absent id Y
\* under R, a diagnosis followed by a fix pass for dangling references removes
\* Y from X's R list, returns the issue as fixed and removes it from the open
\* list.
C27_DanglingFixableUnderEveryType ==
    DanglingFixPass(call) =>
        \A X \in DOMAIN call.graph, R \in RelationType, Y \in Ids :
            IsDangling(call.graph, X, R, Y) /\ call.item_id \in {NotGiven, X} =>
                /\ Y \notin Range(Get(items[X].relations, R))
                /\ IssuesAbout(ret.value, X, R, Y) # <<>>
                /\ IssuesAbout(issues, X, R, Y) = <<>>

\* -------------------------------------------------------- GianttGraph.copy
\* In the specification of copy(), items is the graph that is copied,
\* call.copy is the graph copy() returned and call.shared are the (id,
\* relation type) pairs whose target list is one list object held by the
\* item of both graphs.

\* GianttItem.copy: charts.copy() and tags.copy() are new lists;
\* relations.copy() is a new dict that holds the target lists of self.
ItemCopy(item) ==
    [item |-> GianttItem(item.id, item.charts, item.tags, item.relations),
     shared |-> {<<item.id, rel_type>> : rel_type \in DOMAIN item.relations}]

\* GianttGraph.copy: a new graph with add_item(item.copy()) for every item.
GraphCopy(g) ==
    [graph |-> [n \in DOMAIN g |-> ItemCopy(g[n]).item],
     shared |-> UNION {ItemCopy(g[n]).shared : n \in DOMAIN g}]

\* What list.remove, list.append and del, done on the items of one graph,
\* do to the other graph: operated is the graph as the call leaves it, with
\* its items still the objects they were.  A shared list shows in the other
\* graph as it is in the operated one; a list whose relation type was
\* deleted from the operated item had been emptied before (doctor.py:236-238)
\* and stays, empty, in the other item.
SeenThrough(other, operated, shared) ==
    [n \in DOMAIN other |->
        [other[n] EXCEPT !.relations =
            [rel_type \in DOMAIN @ |->
                IF <<n, rel_type>> \notin shared THEN @[rel_type]
                ELSE IF rel_type \in DOMAIN operated[n].relations
                THEN operated[n].relations[rel_type]
                ELSE <<>>]]]

\* The pairs still shared after a call: the operated item is the object it
\* was and still has the relation type.
StillShared(shared, operated, replaced) ==
    {pair \in shared : /\ pair[1] \notin replaced
                       /\ pair[2] \in DOMAIN operated[pair[1]].relations}

\* The two "Update existing items" blocks of insert_between, before
\* add_item: the graph with its items as the removes and appends leave them.
Rewired(g, new_item, before_id, after_id) ==
    IF before_id \notin DOMAIN g \/ after_id \notin DOMAIN g THEN g
    ELSE LET unlocks == Rewire(g, before_id, "UNLOCKS", after_id, new_item.id)
         IN IF unlocks.raised # "none" THEN unlocks.graph
            ELSE Rewire(unlocks.graph, after_id, "REQUIRES", before_id, new_item.id).graph

Operated(on) == IF on = "original" THEN items ELSE call.copy

Other(on) == IF on = "original" THEN call.copy ELSE items

Copied == "copy" \in DOMAIN call

\* The graphs are edited at most MaxEdits times after the copy.
CanEdit == Copied /\ call.edits < MaxEdits

\* The two graphs after a call on one of them.
After(on, operated, other) ==
    [original |-> IF on = "original" THEN operated ELSE other,
     copy |-> IF on = "original" THEN other ELSE operated]

\* temp_graph = graph.copy()
Copy ==
    /\ Loading
    /\ items # <<>>
    /\ LET copied == GraphCopy(items)
       IN /\ call' = [name |-> "copy", copy |-> copied.graph, shared |-> copied.shared,
                      edits |-> 0]
          /\ ret' = [raised |-> "none", value |-> copied.graph]
    /\ UNCHANGED <<items, issues, fixed_issues>>

\* insert_between on the graph or on its copy.
InsertBetweenOn ==
    /\ CanEdit
    /\ \E on \in {"original", "copy"}, new_item \in NewItems,
          before_id \in DoctorIds, after_id \in DoctorIds :
         LET done == insert_between(Operated(on), new_item, before_id, after_id)
             rewired == Rewired(Operated(on), new_item, before_id, after_id)
             replaced == IF done.raised = "none" THEN {new_item.id} ELSE {}
             after == After(on, done.graph, SeenThrough(Other(on), rewired, call.shared))
         IN /\ items' = after.original
            /\ call' = [name |-> "insert_between", on |-> on, new_item |-> new_item,
                        before_id |-> before_id, after_id |-> after_id,
                        before |-> [original |-> items, copy |-> call.copy,
                                    shared |-> call.shared],
                        copy |-> after.copy,
                        shared |-> StillShared(call.shared, rewired, replaced),
                        edits |-> call.edits + 1]
            /\ ret' = [raised |-> done.raised, message |-> done.message,
                       new_item |-> done.new_item]
    /\ UNCHANGED <<issues, fixed_issues>>

\* GianttDoctor(graph).full_diagnosis() for the graph or for its copy.
FullDiagnosisOn ==
    /\ CanEdit
    /\ call.name # "full_diagnosis"
    /\ \E on \in {"original", "copy"} :
         /\ \E found \in full_diagnosis(Operated(on)) :
              /\ issues' = found
              /\ ret' = [raised |-> "none", value |-> found]
         /\ call' = [name |-> "full_diagnosis", on |-> on,
                     copy |-> call.copy, shared |-> call.shared, edits |-> call.edits]
    /\ fixed_issues' = <<>>
    /\ UNCHANGED items

\* fix_issues on the doctor of the diagnosis.
FixIssuesOn ==
    /\ Copied
    /\ call.name = "full_diagnosis"
    /\ \E issue_type \in IssueType \cup {NotGiven} :
         LET on == call.on
             done == fix_issues(Operated(on), issues, fixed_issues, issue_type, NotGiven)
             after == After(on, done.graph, SeenThrough(Other(on), done.graph, call.shared))
         IN /\ items' = after.original
            /\ issues' = done.issues
            /\ fixed_issues' = done.fixed_issues
            /\ ret' = [raised |-> done.raised, value |-> done.fixed]
            /\ call' = [name |-> "fix_issues", on |-> on, issue_type |-> issue_type,
                        before |-> [original |-> items, copy |-> call.copy,
                                    shared |-> call.shared],
                        copy |-> after.copy,
                        shared |-> StillShared(call.shared, done.graph, {}),
                        edits |-> call.edits + 1]

\* C28: copy() returns an independent graph: an insert_between or a fix pass
\* of the doctor on the copy leaves every item of the original as it was,
\* relation target lists, charts and tags included, and one on the original
\* leaves the copy as it was.
C28_CopyIsIndependent ==
    Copied /\ call.name \in {"insert_between", "fix_issues"} =>
        IF call.on = "copy" THEN items = call.before.original
        ELSE call.copy = call.before.copy

\* C29: insert_between is all-or-nothing: whenever it raises, for a missing
\* endpoint or for any other reason, the graph's set of ids and every existing
\* item's relation lists are as before the call, so no existing item is left
\* referring to the id of a new item that was never added.
C29_InsertIsAllOrNothing ==
    (InsertCalled /\ ret.raised # "none") =>
        /\ DOMAIN items = DOMAIN call.graph
        /\ \A n \in DOMAIN call.graph : items[n].relations = call.graph[n].relations
        /\ \A n \in DOMAIN items, rel_type \in RelationType :
              (/\ call.new_item.id \notin DOMAIN items
               /\ call.new_item.id \in Targets(items, n, rel_type))
                 => call.new_item.id \in Targets(call.graph, n, rel_type)

\* Loading for an insert_between that a sort follows: items with REQUIRES and
\* UNLOCKS lists, the relations the two read.
ChainAddItem ==
    /\ Loading
    /\ \E id \in Ids \ DOMAIN items :
         LET room == MaxChainTargets - GraphTargets(items, DOMAIN items, RelationType)
         IN \E chain \in RelMaps(ChainTypes, room) :
               items' = add_item(items, GianttItem(id, <<>>, <<>>, chain))
    /\ call' = [name |-> "add_item"]
    /\ ret' = NoRet
    /\ UNCHANGED <<issues, fixed_issues>>

\* The save that follows a successful insert_between in the insert command
\* sorts the graph.
SortAfterInsert ==
    /\ InsertCalled
    /\ ret.raised = "none"
    /\ \E outcome \in safe_topological_sort(items) : ret' = outcome
    /\ call' = [name |-> "safe_topological_sort", graph |-> items, after |-> call]
    /\ items' = GraphAfterSort(items)
    /\ UNCHANGED <<issues, fixed_issues>>

\* The call c is an insert_between of a new id into a graph without a
\* REQUIRES cycle.
FreshIntoAcyclic(c) ==
    /\ c.name = "insert_between"
    /\ c.new_item.id \notin DOMAIN c.graph
    /\ ~HasRequiresCycle(c.graph)

\* C30: insert_between preserves acyclicity: when the REQUIRES edges of the
\* graph have no cycle and new_item's id is not yet an id of the graph, then
\* after a successful insert_between the REQUIRES edges between present items
\* still have no cycle, and the sort that follows returns an order with
\* before_id ahead of new_item.
C30_InsertPreservesAcyclicity ==
    /\ (FreshIntoAcyclic(call) /\ ret.raised = "none") => ~HasRequiresCycle(items)
    /\ (SortCalled /\ "after" \in DOMAIN call /\ FreshIntoAcyclic(call.after)) =>
          /\ ret.raised = "none"
          /\ Position(ret.value, call.after.before_id)
                < Position(ret.value, call.after.new_item.id)

\* No item of the graph the call c was made on lists new_item's id under
\* REQUIRES.
NoneRequiresNew(c) ==
    \A n \in DOMAIN c.graph : c.new_item.id \notin Targets(c.graph, n, "REQUIRES")

\* C30 as amended: when, besides, no item of the graph lists new_item's id
\* under REQUIRES (as a dangling reference), a successful insert_between
\* leaves the REQUIRES edges between present items without a cycle, and the
\* sort that follows returns an order with before_id ahead of new_item.
C30_InsertOfUnreferencedIdPreservesAcyclicity ==
    /\ (FreshIntoAcyclic(call) /\ NoneRequiresNew(call) /\ ret.raised = "none")
          => ~HasRequiresCycle(items)
    /\ (/\ SortCalled
        /\ "after" \in DOMAIN call
        /\ FreshIntoAcyclic(call.after)
        /\ NoneRequiresNew(call.after)) =>
          /\ ret.raised = "none"
          /\ Position(ret.value, call.after.before_id)
                < Position(ret.value, call.after.new_item.id)

\* The sort has returned after an insert_between of a new id that no item
\* referred to, into a graph without a REQUIRES cycle, between two items of
\* which the second required the first.
C30_Witness ==
    /\ SortReturned
    /\ "after" \in DOMAIN call
    /\ FreshIntoAcyclic(call.after)
    /\ NoneRequiresNew(call.after)
    /\ call.after.before_id
          \in Targets(call.after.graph, call.after.after_id, "REQUIRES")

\* insert_between has rewired a list of an endpoint.
C26_WitnessInsert ==
    /\ call.name = "insert_between"
    /\ ret.raised = "none"
    /\ \E n \in DOMAIN call.graph : items[n] # call.graph[n]

Next == AddItem \/ Sort \/ InsertBetween \/ FullDiagnosis \/ FixIssues

Spec == Init /\ [][Next]_vars

NextSort == AddItem \/ Sort

SpecSort == Init /\ [][NextSort]_vars

NextInsert == AddItem \/ InsertBetween

SpecInsert == Init /\ [][NextInsert]_vars

NextDoctor == DoctorAddItem \/ FullDiagnosis \/ FixIssues

SpecDoctor == Init /\ [][NextDoctor]_vars

NextRepeat == DoctorAddItem \/ FullDiagnosis \/ TypeFixIssues \/ FixAgain

SpecRepeat == Init /\ [][NextRepeat]_vars

NextDiagnosis == DoctorAddItem \/ FullDiagnosis \/ QuickCheck \/ TypeFixIssues

SpecDiagnosis == Init /\ [][NextDiagnosis]_vars

NextAdd == AddAnyItem

SpecAdd == Init /\ [][NextAdd]_vars

NextLabels == LabelledAddItem \/ FullDiagnosis \/ LabelFixIssues

SpecLabels == Init /\ [][NextLabels]_vars

NextCodec == Encode \/ Decode

SpecCodec == InitCodec /\ [][NextCodec]_vars

NextIdPriority == ParseIdPriority \/ FromStringIdPriority

SpecIdPriority == InitIdPriority /\ [][NextIdPriority]_vars

NextTwoItems == EncodeBoth

SpecTwoItems == InitTwoItems /\ [][NextTwoItems]_vars

NextTwoDurations == Add

SpecTwoDurations == InitTwoDurations /\ [][NextTwoDurations]_vars

NextSortSteps == RequiresAddItem \/ SortBegin \/ SortStep

\* The interpreter goes on running a call that has started.
SpecSortSteps == Init /\ [][NextSortSteps]_vars /\ WF_vars(SortStep)

\* A loaded graph is edited by insert_between, diagnosed and fixed.
NextEdit == EditAddItem \/ InsertBetween \/ FullDiagnosis \/ FixIssues

SpecEdit == Init /\ [][NextEdit]_vars

NextLoad == LoadBegin \/ LoadStep

\* The interpreter goes on running a load that has started.
SpecLoad == InitFiles /\ [][NextLoad]_vars /\ WF_vars(LoadStep)

NextCopy == EditAddItem \/ Copy \/ InsertBetweenOn \/ FullDiagnosisOn \/ FixIssuesOn

SpecCopy == Init /\ [][NextCopy]_vars

NextInsertSort == ChainAddItem \/ InsertBetween \/ SortAfterInsert

SpecInsertSort == Init /\ [][NextInsertSort]_vars
====
